---- MODULE Spec2Model ----
(***************************************************************************)
(* ClipWise caption pipeline: Entity Resolver, Track Selector, Segment     *)
(* Parser, Transcript Assembler and word count of POST /api/transcribe.    *)
(*                                                                         *)
(* Strings are sequences of one-character strings, so that trimming,       *)
(* splitting, regular-expression scans and entity decoding are computed    *)
(* character by character as the JavaScript does.                          *)
(***************************************************************************)
EXTENDS Integers, Sequences, FiniteSets, TLC

VARIABLES
    \* Track Selector (fetchTranscript, after the video page was scanned)
    captionTracks,   \* the parsed "captionTracks" array
    selectedTrack,   \* index into captionTracks of the chosen track, 0 = none
    selector,        \* which fetchTranscript made the choice
    selectPc,        \* "idle" | "listed" | "selected" | "failed"
    selectError,     \* message of the Error thrown, "" = none
    \* Segment Parser, Transcript Assembler, word count
    captionXml,      \* the caption payload: its tags in document order
    clientText,      \* clientTranscript.text of the request body, <<>> = absent
    clientTimestamped, \* clientTranscript.timestamped
    parser,          \* which code parsed the payload: "route" | "browser"
    segments,        \* the segments pushed by the parse loops
    plainText,       \* transcript text held by the handler
    timestampedText, \* timestamped transcript held by the handler
    wordCount,       \* word count of the response and of the record
    parsePc,         \* "idle" | "request" | "posted" | "assembled" |
                     \* "failed" | "responded"
    parseError,      \* message of the Error thrown, "" = none
    \* Entity Resolver
    inputId,         \* the identifier the input was written with
    inputShape,      \* how the input carries it: a URL shape, "bare", "short"
    urlInput,        \* the text typed into the dashboard or passed as ?url=
    videoUrl,        \* videoUrl of the request body
    videoId,         \* the identifier resolved, << >> = null
    resolver,        \* which code resolved it: "route" | "browser"
    resolvePc,       \* "idle" | "typed" | "request" | "resolved" | "rejected"
    resolveError,    \* message of the error answered, "" = none
    \* POST /api/transcribe, one invocation per request
    request,         \* body and authorization header of each request
    pc,              \* where each invocation stands
    local,           \* the invocation's variables (videoId, userId, ...)
    response,        \* the response returned, status 0 = none yet
    calls,           \* upstream and store calls issued, in order, each
                     \* with how it ended
    env,             \* process.env: the keys of the summary backends
    profile,         \* the account's row of table profiles
    transcriptions,  \* the rows inserted into table transcriptions
    \* POST /api/webhooks and the account
    events,          \* the Stripe events delivered, each with the status
                     \* the webhook answered
    opening,         \* the account's row when the requests arrived
    \* GET /api/yt-page, the edge proxy
    proxyRequest,    \* the query of the request: its url and v parameters
    proxyPc,         \* "idle" | "request" | "fetch" | "done"
    proxyResponse,   \* status and body of the response, status 0 = none yet
    proxyFetched     \* the URLs fetched upstream, in order

selectVars == << captionTracks, selectedTrack, selector, selectPc, selectError >>

parseVars == << captionXml, clientText, clientTimestamped, parser, segments,
                plainText, timestampedText, wordCount, parsePc, parseError >>

resolveVars == << inputId, inputShape, urlInput, videoUrl, videoId, resolver,
                  resolvePc, resolveError >>

handlerVars == << request, pc, local, response, calls, env, profile,
                  transcriptions >>

accountVars == << events, opening >>

proxyVars == << proxyRequest, proxyPc, proxyResponse, proxyFetched >>

vars == << selectVars, parseVars, resolveVars, handlerVars, accountVars,
           proxyVars >>

----------------------------------------------------------------------------
(* Bounds of the model *)

MaxTracks == 3

MaxTags == 2

MaxPad == 1

MaxCredits == 2

\* Stripe events delivered to the webhook in one behaviour.
MaxEvents == 1

----------------------------------------------------------------------------
(* Generic helpers *)

\* Array.prototype.find as an index: the least of the indices that pass the
\* test, 0 when none does.
FirstIndex(I) ==
    IF I = { } THEN 0 ELSE CHOOSE i \in I : \A j \in I : i <= j

\* All sequences over S of length 0..n.
SeqsUpTo(S, n) == UNION { [1..k -> S] : k \in 0..n }

----------------------------------------------------------------------------
(* Track Selector *)

PreferredLangs == << "pt", "en", "es", "fr", "de", "it", "ja", "ko", "zh" >>

\* Language codes the origin may report: three of the preference list (the
\* first two and a late one) and one outside it.
TrackLangs == { "pt", "en", "ja", "xx" }

\* kind is 'asr' for auto-generated tracks; anything else is a manual track.
TrackKinds == { "asr", "manual" }

\* baseUrl is "" when the origin's JSON carries none.
TrackUrls == { "", "u" }

Tracks == [ languageCode : TrackLangs, kind : TrackKinds, baseUrl : TrackUrls ]

NoCaptionTracksRoute == "No caption tracks found for this video"
NoCaptionUrl == "Caption URL not found"
NoCaptionTracksPreferred == "No caption tracks available"

\* route.ts: captionTracks.find(t => t.kind !== 'asr') || captionTracks[0]
RouteSelect(tracks) ==
    LET m == FirstIndex({ i \in 1..Len(tracks) : tracks[i].kind # "asr" })
    IN  IF m # 0 THEN m ELSE 1

\* The test of tracks.find in the two loops over the preference list: the
\* first loop also asks for a manual track.
LangMatch(t, lang, manualOnly) ==
    /\ t.languageCode = lang
    /\ manualOnly => t.kind # "asr"

\* One loop over the preference list from position i on: the index of the
\* track found for the first language that finds one (the break), 0 when the
\* loop ends without a break.
RECURSIVE LangLoop(_, _, _)
LangLoop(tracks, i, manualOnly) ==
    IF i > Len(PreferredLangs) THEN 0
    ELSE LET f == FirstIndex({ k \in 1..Len(tracks) :
                      LangMatch(tracks[k], PreferredLangs[i], manualOnly) })
         IN  IF f # 0 THEN f ELSE LangLoop(tracks, i + 1, manualOnly)

\* The variant with the preference list: selectedTrack starts as tracks[0];
\* the manual loop may replace it; the second loop runs while selectedTrack
\* is still the object tracks[0] (reference equality, hence the index).
PreferredSelect(tracks) ==
    LET manual == LangLoop(tracks, 1, TRUE)
        afterManual == IF manual # 0 THEN manual ELSE 1
        any == LangLoop(tracks, 1, FALSE)
    IN  IF afterManual = 1
        THEN (IF any # 0 THEN any ELSE 1)
        ELSE afterManual

\* fetchTranscript of the transcribe route, from the parsed track list to
\* the caption URL.
SelectTrack ==
    /\ selectPc = "listed"
    /\ selector' = "route"
    /\ IF Len(captionTracks) = 0
       THEN /\ selectedTrack' = 0
            /\ selectError' = NoCaptionTracksRoute
            /\ selectPc' = "failed"
       ELSE /\ selectedTrack' = RouteSelect(captionTracks)
            /\ IF captionTracks[RouteSelect(captionTracks)].baseUrl = ""
               THEN selectError' = NoCaptionUrl /\ selectPc' = "failed"
               ELSE selectError' = "" /\ selectPc' = "selected"
    /\ UNCHANGED << captionTracks, parseVars, resolveVars >>
    /\ UNCHANGED << handlerVars, accountVars, proxyVars >>

\* fetchTranscript of the preference-list variant, same span.
SelectTrackPreferred ==
    /\ selectPc = "listed"
    /\ selector' = "preferred"
    /\ IF Len(captionTracks) = 0
       THEN /\ selectedTrack' = 0
            /\ selectError' = NoCaptionTracksPreferred
            /\ selectPc' = "failed"
       ELSE /\ selectedTrack' = PreferredSelect(captionTracks)
            /\ selectError' = ""
            /\ selectPc' = "selected"
    /\ UNCHANGED << captionTracks, parseVars, resolveVars >>
    /\ UNCHANGED << handlerVars, accountVars, proxyVars >>

SelectIdle ==
    /\ captionTracks = << >>
    /\ selectedTrack = 0
    /\ selector = "none"
    /\ selectPc = "idle"
    /\ selectError = ""

----------------------------------------------------------------------------
(* Strings as character sequences *)

\* The characters \s and String.prototype.trim treat as white space, as far
\* as the payloads of the model hold them.
IsSpace(c) == c \in { " ", "\n", "\t" }

IsDigit(c) == c \in { "0", "1", "2", "3", "4", "5", "6", "7", "8", "9" }

DigitVal(c) ==
    CASE c = "0" -> 0 [] c = "1" -> 1 [] c = "2" -> 2 [] c = "3" -> 3
      [] c = "4" -> 4 [] c = "5" -> 5 [] c = "6" -> 6 [] c = "7" -> 7
      [] c = "8" -> 8 [] c = "9" -> 9

DigitChar(n) == << "0", "1", "2", "3", "4", "5", "6", "7", "8", "9" >>[n + 1]

StartsWith(s, pat) == Len(s) >= Len(pat) /\ SubSeq(s, 1, Len(pat)) = pat

Drop(s, n) == SubSeq(s, n + 1, Len(s))

RECURSIVE TrimStart(_)
TrimStart(s) ==
    IF s # << >> /\ IsSpace(Head(s)) THEN TrimStart(Tail(s)) ELSE s

RECURSIVE TrimEnd(_)
TrimEnd(s) ==
    IF s # << >> /\ IsSpace(s[Len(s)])
    THEN TrimEnd(SubSeq(s, 1, Len(s) - 1))
    ELSE s

\* String.prototype.trim
Trim(s) == TrimEnd(TrimStart(s))

\* str.replace(/pat/g, rep) for a literal pattern: left to right, without
\* overlap, the replacement is not scanned again.
RECURSIVE ReplaceAll(_, _, _)
ReplaceAll(s, pat, rep) ==
    IF s = << >> THEN << >>
    ELSE IF StartsWith(s, pat)
         THEN rep \o ReplaceAll(Drop(s, Len(pat)), pat, rep)
         ELSE << Head(s) >> \o ReplaceAll(Tail(s), pat, rep)

\* parts.join(sep)
RECURSIVE Join(_, _)
Join(parts, sep) ==
    IF parts = << >> THEN << >>
    ELSE IF Len(parts) = 1 THEN parts[1]
         ELSE parts[1] \o sep \o Join(Tail(parts), sep)

\* Length of the run of decimal digits s starts with.
RECURSIVE DigitRun(_)
DigitRun(s) ==
    IF s # << >> /\ IsDigit(Head(s)) THEN 1 + DigitRun(Tail(s)) ELSE 0

\* parseInt of a string of decimal digits.
RECURSIVE ParseInt(_)
ParseInt(s) ==
    IF s = << >> THEN 0
    ELSE ParseInt(SubSeq(s, 1, Len(s) - 1)) * 10 + DigitVal(s[Len(s)])

\* Math.floor(parseFloat(s) * 1000) for a decimal numeral "i.f" or "i" with
\* at least one digit before the point: the integer part in thousands plus
\* the first three fraction digits. The numerals of the model are exact in
\* binary floating point, so the product is exact.
ParseFloatMillis(s) ==
    LET n == DigitRun(s)
        rest == Drop(s, n)
        fracLen == IF rest # << >> /\ Head(rest) = "." THEN DigitRun(Tail(rest)) ELSE 0
        frac == SubSeq(rest, 2, 1 + fracLen) \o << "0", "0", "0" >>
    IN  ParseInt(SubSeq(s, 1, n)) * 1000 + ParseInt(SubSeq(frac, 1, 3))

\* Number.prototype.toString of a non-negative integer.
RECURSIVE NumToString(_)
NumToString(n) ==
    IF n < 10 THEN << DigitChar(n) >>
    ELSE NumToString(n \div 10) \o << DigitChar(n % 10) >>

\* String.prototype.padStart(len, c)
RECURSIVE PadStart(_, _, _)
PadStart(s, len, c) ==
    IF Len(s) >= len THEN s ELSE PadStart(<< c >> \o s, len, c)

\* String.fromCharCode for the codes the payloads of the model refer to; any
\* other code is some character that is neither white space nor markup.
FromCharCode(n) ==
    CASE n = 9 -> "\t" [] n = 10 -> "\n" [] n = 32 -> " "
      [] n = 38 -> "&" [] n = 39 -> "'" [] n = 60 -> "<" [] n = 62 -> ">"
      [] n = 97 -> "a"
      [] OTHER -> "?"

----------------------------------------------------------------------------
(* Segment Parser *)

\* match[3].replace(/<[^>]+>/g, ''): a "<", one or more characters other
\* than ">", and the next ">". "<>" is no match, and the scan goes on behind
\* its "<".
RECURSIVE StripTags(_)
StripTags(s) ==
    IF s = << >> THEN << >>
    ELSE LET close == FirstIndex({ i \in 1..(Len(s) - 1) : s[i + 1] = ">" })
         IN  IF Head(s) = "<" /\ close >= 2
             THEN StripTags(Drop(s, close + 1))
             ELSE << Head(s) >> \o StripTags(Tail(s))

\* .replace(/&#(\d+);/g, (_m, code) => String.fromCharCode(parseInt(code)))
RECURSIVE DecodeNumeric(_)
DecodeNumeric(s) ==
    IF s = << >> THEN << >>
    ELSE LET n == IF StartsWith(s, << "&", "#" >>) THEN DigitRun(Drop(s, 2)) ELSE 0
         IN  IF n > 0 /\ Len(s) >= n + 3 /\ s[n + 3] = ";"
             THEN << FromCharCode(ParseInt(SubSeq(s, 3, n + 2))) >>
                      \o DecodeNumeric(Drop(s, n + 3))
             ELSE << Head(s) >> \o DecodeNumeric(Tail(s))

\* decodeHtmlEntities of the transcribe route: the chain of replacements in
\* its order.
DecodeHtmlEntities(str) ==
    LET r1 == ReplaceAll(str, << "&", "a", "m", "p", ";" >>, << "&" >>)
        r2 == ReplaceAll(r1, << "&", "l", "t", ";" >>, << "<" >>)
        r3 == ReplaceAll(r2, << "&", "g", "t", ";" >>, << ">" >>)
        r4 == ReplaceAll(r3, << "&", "q", "u", "o", "t", ";" >>, << "\"" >>)
        r5 == ReplaceAll(r4, << "&", "#", "3", "9", ";" >>, << "'" >>)
        r6 == ReplaceAll(r5, << "&", "#", "x", "2", "7", ";" >>, << "'" >>)
        r7 == ReplaceAll(r6, << "&", "n", "b", "s", "p", ";" >>, << " " >>)
    IN  DecodeNumeric(r7)

\* decodeHtml of the dashboard: the same chain.
DecodeHtml(str) ==
    LET r1 == ReplaceAll(str, << "&", "a", "m", "p", ";" >>, << "&" >>)
        r2 == ReplaceAll(r1, << "&", "l", "t", ";" >>, << "<" >>)
        r3 == ReplaceAll(r2, << "&", "g", "t", ";" >>, << ">" >>)
        r4 == ReplaceAll(r3, << "&", "q", "u", "o", "t", ";" >>, << "\"" >>)
        r5 == ReplaceAll(r4, << "&", "#", "3", "9", ";" >>, << "'" >>)
        r6 == ReplaceAll(r5, << "&", "#", "x", "2", "7", ";" >>, << "'" >>)
        r7 == ReplaceAll(r6, << "&", "n", "b", "s", "p", ";" >>, << " " >>)
    IN  DecodeNumeric(r7)

\* The tags the two regular expressions match, in document order: srv3Regex
\* matches <p t="digits" d="digits">inner</p>, stdRegex matches
\* <text start="numeral" dur="numeral">inner</text>.
Srv3Tags(xml) == SelectSeq(xml, LAMBDA g : g.el = "p")

StdTags(xml) == SelectSeq(xml, LAMBDA g : g.el = "text")

\* decodeHtmlEntities(match[3].replace(/<[^>]+>/g, '').trim())
RouteText(inner) == DecodeHtmlEntities(Trim(StripTags(inner)))

\* One iteration of the srv3 loop of the route, before `if (text)`.
Srv3Segment(g) ==
    [ text |-> RouteText(g.inner),
      offset |-> ParseInt(g.start),
      duration |-> ParseInt(g.dur) ]

\* One iteration of the standard-format loop of the route, before `if (text)`.
StdSegment(g) ==
    [ text |-> RouteText(g.inner),
      offset |-> ParseFloatMillis(g.start),
      duration |-> ParseFloatMillis(g.dur) ]

\* if (text) segments.push(...)
Pushed(segs) == SelectSeq(segs, LAMBDA x : x.text # << >>)

\* segs ordered by offset (insertion sort).
RECURSIVE SortedByOffset(_)
SortedByOffset(segs) ==
    IF segs = << >> THEN << >>
    ELSE LET rest == SortedByOffset(Tail(segs))
             before == SelectSeq(rest, LAMBDA x : x.offset < Head(segs).offset)
             after == SelectSeq(rest, LAMBDA x : x.offset >= Head(segs).offset)
         IN  before \o << Head(segs) >> \o after

\* while ((match = srv3Regex.exec(xml)) !== null): one segment per <p> tag,
\* pushed if its text is not empty.
Srv3Loop(xml) ==
    LET tags == Srv3Tags(xml)
    IN  Pushed([ i \in 1..Len(tags) |-> Srv3Segment(tags[i]) ])

\* while ((match = stdRegex.exec(xml)) !== null): the same for <text> tags.
StdLoop(xml) ==
    LET tags == StdTags(xml)
    IN  Pushed([ i \in 1..Len(tags) |-> StdSegment(tags[i]) ])

\* The parse loops followed by a sort of the segments.
RouteSegments_Sorted(xml) ==
    LET isSrv3 == Srv3Tags(xml) # << >>
    IN  IF isSrv3
        THEN SortedByOffset(Srv3Loop(xml))
        ELSE SortedByOffset(StdLoop(xml))

\* The two parse loops of the route: isSrv3 is set by every match of
\* srv3Regex, whatever its text; the standard loop runs only if !isSrv3.
RouteSegments(xml) ==
    LET isSrv3 == Srv3Tags(xml) # << >>
    IN  IF isSrv3
        THEN Srv3Loop(xml)
        ELSE StdLoop(xml)

\* decodeHtml(match[2].replace(/<[^>]+>/g, '').trim())
BrowserText(inner) == DecodeHtml(Trim(StripTags(inner)))

BrowserStdSegment(g) ==
    [ text |-> BrowserText(g.inner), offset |-> ParseFloatMillis(g.start) ]

BrowserSrv3Segment(g) ==
    [ text |-> BrowserText(g.inner), offset |-> ParseInt(g.start) ]

BrowserStdLoop(xml) ==
    LET tags == StdTags(xml)
    IN  Pushed([ i \in 1..Len(tags) |-> BrowserStdSegment(tags[i]) ])

BrowserSrv3Loop(xml) ==
    LET tags == Srv3Tags(xml)
    IN  Pushed([ i \in 1..Len(tags) |-> BrowserSrv3Segment(tags[i]) ])

\* The two parse loops of the dashboard: the standard format first, srv3 if
\* segments.length === 0.
BrowserSegments(xml) ==
    LET std == BrowserStdLoop(xml)
    IN  IF std # << >>
        THEN std
        ELSE BrowserSrv3Loop(xml)

NoSegmentsRoute == "No transcript segments could be extracted"
NoSegmentsBrowser ==
    "No transcript segments could be extracted from the captions data."

----------------------------------------------------------------------------
(* Transcript Assembler *)

\* segments.map(s => s.text).join(' ')
PlainTextOf(segs) == Join([ i \in 1..Len(segs) |-> segs[i].text ], << " " >>)

\* `[${mins.toString().padStart(2, '0')}:${secs.toString().padStart(2, '0')}] ${s.text}`
TimestampLine(seg) ==
    LET totalSeconds == seg.offset \div 1000
        mins == totalSeconds \div 60
        secs == totalSeconds % 60
    IN  << "[" >> \o PadStart(NumToString(mins), 2, "0") \o << ":" >>
            \o PadStart(NumToString(secs), 2, "0") \o << "]", " " >> \o seg.text

\* segments.map(...).join('\n')
TimestampedTextOf(segs) ==
    Join([ i \in 1..Len(segs) |-> TimestampLine(segs[i]) ], << "\n" >>)

\* str.split(/\s+/): cur is the piece being read; a run of white space ends
\* it, also at the start and at the end of the string.
RECURSIVE SplitFrom(_, _)
SplitFrom(s, cur) ==
    IF s = << >> THEN << cur >>
    ELSE IF IsSpace(Head(s))
         THEN << cur >> \o SplitFrom(TrimStart(s), << >>)
         ELSE SplitFrom(Tail(s), Append(cur, Head(s)))

SplitSpaces(s) == SplitFrom(s, << >>)

\* plainText.split(/\s+/).length
WordCountOf(text) == Len(SplitSpaces(text))

----------------------------------------------------------------------------
(* Caption payloads and client transcripts of the model *)

Hello == << "H", "e", "l", "l", "o" >>
World == << "W", "o", "r", "l", "d" >>

\* Inner payloads of a tag: plain words, text that needs trimming, markup,
\* a newline inside, and payloads that are or become white space.
InnerTexts ==
    { Hello, World,
      << "a", " ", "b" >>,
      << " ", "a" >>,
      << "a", "\n", "b" >>,
      << "<", "b", ">", "a", "<", "/", "b", ">" >>,
      << >>,
      << " " >>,
      << "&", "#", "3", "2", ";" >>,
      << "&", "n", "b", "s", "p", ";" >> }

\* t="..." of a <p> tag, in milliseconds; the last is past 100 minutes.
Srv3Starts ==
    { << "1", "0", "0", "0" >>, << "2", "0", "0", "0" >>,
      << "6", "0", "6", "1", "0", "0", "0" >> }

PTags == [ el : { "p" }, start : Srv3Starts,
           dur : { << "5", "0", "0" >> }, inner : InnerTexts ]

TextTags == [ el : { "text" }, start : { << "1", ".", "5" >> },
              dur : { << "0", ".", "5" >> }, inner : InnerTexts ]

Payloads == SeqsUpTo(PTags \cup TextTags, MaxTags)

\* clientTranscript.text as a caller of the API may send it.
ClientTexts ==
    { Hello \o << " " >> \o World,
      << " ", "a" >>,
      << "a", " " >>,
      << "a", " ", " ", "b" >>,
      << "a", "\n", "b" >>,
      << " " >> }

----------------------------------------------------------------------------
(* Parsing, assembling and counting in the request *)

\* POST, server-side branch: fetchTranscript from the caption payload on.
FetchTranscript ==
    /\ parsePc = "request"
    /\ clientText = << >>
    /\ parser' = "route"
    /\ LET segs == RouteSegments(captionXml)
       IN  IF Len(segs) = 0
           THEN /\ parseError' = NoSegmentsRoute
                /\ parsePc' = "failed"
                /\ UNCHANGED << segments, plainText, timestampedText >>
           ELSE /\ segments' = segs
                /\ plainText' = PlainTextOf(segs)
                /\ timestampedText' = TimestampedTextOf(segs)
                /\ parseError' = ""
                /\ parsePc' = "assembled"
    /\ UNCHANGED << captionXml, clientText, clientTimestamped, wordCount,
                    selectVars, resolveVars >>
    /\ UNCHANGED << handlerVars, accountVars, proxyVars >>

\* Dashboard: fetchTranscriptClientSide from the caption payload on, and the
\* body doTranscribe posts.
FetchTranscriptClientSide ==
    /\ parsePc = "request"
    /\ clientText = << >>
    /\ parser' = "browser"
    /\ LET segs == BrowserSegments(captionXml)
       IN  IF Len(segs) = 0
           THEN /\ parseError' = NoSegmentsBrowser
                /\ parsePc' = "failed"
                /\ UNCHANGED << segments, clientText, clientTimestamped >>
           ELSE /\ segments' = segs
                /\ clientText' = PlainTextOf(segs)
                /\ clientTimestamped' = TimestampedTextOf(segs)
                /\ parseError' = ""
                /\ parsePc' = "posted"
    /\ UNCHANGED << captionXml, plainText, timestampedText, wordCount,
                    selectVars, resolveVars >>
    /\ UNCHANGED << handlerVars, accountVars, proxyVars >>

\* POST, `if (clientTranscript?.text)` branch.
UseClientTranscript ==
    /\ parsePc \in { "request", "posted" }
    /\ clientText # << >>
    /\ plainText' = clientText
    /\ timestampedText' = clientTimestamped
    /\ parsePc' = "assembled"
    /\ UNCHANGED << captionXml, clientText, clientTimestamped, parser,
                    segments, wordCount, parseError, selectVars, resolveVars >>
    /\ UNCHANGED << handlerVars, accountVars, proxyVars >>

\* POST: wordCount of the inserted record and of the response.
CountWords ==
    /\ parsePc = "assembled"
    /\ wordCount' = WordCountOf(plainText)
    /\ parsePc' = "responded"
    /\ UNCHANGED << captionXml, clientText, clientTimestamped, parser,
                    segments, plainText, timestampedText, parseError,
                    selectVars, resolveVars >>
    /\ UNCHANGED << handlerVars, accountVars, proxyVars >>

ParseIdle ==
    /\ captionXml = << >>
    /\ clientText = << >>
    /\ clientTimestamped = << >>
    /\ parser = "none"
    /\ segments = << >>
    /\ plainText = << >>
    /\ timestampedText = << >>
    /\ wordCount = 0
    /\ parsePc = "idle"
    /\ parseError = ""

----------------------------------------------------------------------------
(* Entity Resolver *)

IdLen == 11

\* [a-zA-Z0-9_-]
IdChars ==
    { "a", "b", "c", "d", "e", "f", "g", "h", "i", "j", "k", "l", "m",
      "n", "o", "p", "q", "r", "s", "t", "u", "v", "w", "x", "y", "z",
      "A", "B", "C", "D", "E", "F", "G", "H", "I", "J", "K", "L", "M",
      "N", "O", "P", "Q", "R", "S", "T", "U", "V", "W", "X", "Y", "Z",
      "0", "1", "2", "3", "4", "5", "6", "7", "8", "9", "_", "-" }

\* (?:v=|\/v\/|youtu\.be\/|\/embed\/)
Markers ==
    { << "v", "=" >>,
      << "/", "v", "/" >>,
      << "y", "o", "u", "t", "u", ".", "b", "e", "/" >>,
      << "/", "e", "m", "b", "e", "d", "/" >> }

\* ([a-zA-Z0-9_-]{11}) at the start of s
IdAtStart(s) ==
    /\ Len(s) >= IdLen
    /\ \A k \in 1..IdLen : s[k] \in IdChars

\* The first pattern matches at position i of url: a marker there, and the
\* eleven characters behind it.
ShapeMatchAt(url, i) ==
    \E m \in Markers :
        /\ StartsWith(Drop(url, i - 1), m)
        /\ IdAtStart(Drop(url, i - 1 + Len(m)))

\* The group taken one character early.
ShapeGroupAt_OffByOne(url, i) ==
    LET m == CHOOSE m \in Markers :
                 /\ StartsWith(Drop(url, i - 1), m)
                 /\ IdAtStart(Drop(url, i - 1 + Len(m)))
    IN  SubSeq(url, i + Len(m) - 1, i + Len(m) + IdLen - 2)

\* match[1] of the first pattern at position i.
ShapeGroupAt(url, i) ==
    LET m == CHOOSE m \in Markers :
                 /\ StartsWith(Drop(url, i - 1), m)
                 /\ IdAtStart(Drop(url, i - 1 + Len(m)))
    IN  SubSeq(url, i + Len(m), i + Len(m) + IdLen - 1)

\* url.match(first pattern): the leftmost position it matches at, 0 = null.
ShapeMatch(url) ==
    IF \E i \in 1..Len(url) : ShapeMatchAt(url, i)
    THEN CHOOSE i \in 1..Len(url) :
             /\ ShapeMatchAt(url, i)
             /\ \A j \in 1..(i - 1) : ~ShapeMatchAt(url, j)
    ELSE 0

\* url.match(/^([a-zA-Z0-9_-]{11})$/)
BareMatch(url) == Len(url) = IdLen /\ IdAtStart(url)

\* extractVideoId of the transcribe route; << >> is null.
ExtractVideoIdOf(url) ==
    IF ShapeMatch(url) # 0 THEN ShapeGroupAt(url, ShapeMatch(url))
    ELSE IF BareMatch(url) THEN url
    ELSE << >>

\* idMatch?.[1] of fetchTranscriptClientSide: the first pattern only.
ClientVideoIdOf(url) ==
    IF ShapeMatch(url) # 0 THEN ShapeGroupAt(url, ShapeMatch(url)) ELSE << >>

UrlRequired == "videoUrl or clientTranscript is required"
InvalidUrl == "Invalid YouTube URL"

\* Identifiers of the model: mixed case, its upper-case twin, punctuation
\* only, the letter of the v= marker, digits, the letters of /embed/.
VideoIds ==
    { << "d", "Q", "w", "4", "w", "9", "W", "g", "X", "c", "Q" >>,
      << "D", "Q", "W", "4", "W", "9", "W", "G", "X", "C", "Q" >>,
      << "-", "_", "-", "_", "-", "_", "-", "_", "-", "_", "-" >>,
      << "v", "v", "v", "v", "v", "v", "v", "v", "v", "v", "v" >>,
      << "0", "1", "2", "3", "4", "5", "6", "7", "8", "9", "a" >>,
      << "e", "m", "b", "e", "d", "_", "v", "-", "v", "_", "e" >> }

\* What precedes the identifier in a URL of each shape; the second v= URL
\* holds an earlier "v=" that no identifier follows.
WatchPrefix ==
    << "h", "t", "t", "p", "s", ":", "/", "/", "w", "w", "w", ".", "y", "o",
       "u", "t", "u", "b", "e", ".", "c", "o", "m", "/", "w", "a", "t", "c",
       "h", "?" >>

SitePrefix == SubSeq(WatchPrefix, 1, 23)

ShapePrefixes ==
    [ v |-> { WatchPrefix \o << "v", "=" >>,
              WatchPrefix \o << "r", "e", "v", "=", "1", "&", "v", "=" >> },
      slashv |-> { SitePrefix \o << "/", "v", "/" >> },
      youtube |-> { << "h", "t", "t", "p", "s", ":", "/", "/", "y", "o", "u",
                       "t", "u", ".", "b", "e", "/" >> },
      embed |-> { SitePrefix \o << "/", "e", "m", "b", "e", "d", "/" >> } ]

UrlShapes == { "v", "slashv", "youtube", "embed" }

\* What follows the identifier in a URL.
UrlSuffixes == { << >>, << "&", "t", "=", "1", "s" >> }

Spaces(n) == [ i \in 1..n |-> " " ]

\* The inputs of one shape written with identifier id: a URL of one of the
\* four shapes, the bare identifier, or ("short") nothing at all or an
\* identifier with its last character missing; each with 0..MaxPad blanks
\* on either side.
InputsOf(shape, id) ==
    LET short == SubSeq(id, 1, IdLen - 1)
        cores == IF shape = "bare" THEN { id }
                 ELSE IF shape = "short"
                      THEN { << >>, short, WatchPrefix \o << "v", "=" >> \o short }
                      ELSE { pre \o id \o suf :
                                 pre \in ShapePrefixes[shape], suf \in UrlSuffixes }
    IN  { Spaces(l) \o core \o Spaces(r) :
              core \in cores, l \in 0..MaxPad, r \in 0..MaxPad }

\* Dashboard handleTranscribe: `if (!url.trim()) return`, then
\* doTranscribe(url.trim()).
HandleTranscribe ==
    /\ resolvePc = "typed"
    /\ Trim(urlInput) # << >>
    /\ videoUrl' = Trim(urlInput)
    /\ resolvePc' = "request"
    /\ UNCHANGED << inputId, inputShape, urlInput, videoId, resolver,
                    resolveError, selectVars, parseVars >>
    /\ UNCHANGED << handlerVars, accountVars, proxyVars >>

\* Dashboard useEffect: doTranscribe(urlParam) with the ?url= parameter as
\* it is.
AutoStart ==
    /\ resolvePc = "typed"
    /\ urlInput # << >>
    /\ videoUrl' = urlInput
    /\ resolvePc' = "request"
    /\ UNCHANGED << inputId, inputShape, urlInput, videoId, resolver,
                    resolveError, selectVars, parseVars >>
    /\ UNCHANGED << handlerVars, accountVars, proxyVars >>

\* Any client of the API: the request body with videoUrl as the caller
\* wrote it.
PostRequest ==
    /\ resolvePc = "typed"
    /\ videoUrl' = urlInput
    /\ resolvePc' = "request"
    /\ UNCHANGED << inputId, inputShape, urlInput, videoId, resolver,
                    resolveError, selectVars, parseVars >>
    /\ UNCHANGED << handlerVars, accountVars, proxyVars >>

\* POST without clientTranscript, up to `if (!videoId)`.
ResolveVideoId ==
    /\ resolvePc = "request"
    /\ resolver' = "route"
    /\ IF videoUrl = << >>
       THEN /\ videoId' = << >>
            /\ resolveError' = UrlRequired
            /\ resolvePc' = "rejected"
       ELSE /\ videoId' = ExtractVideoIdOf(videoUrl)
            /\ IF ExtractVideoIdOf(videoUrl) = << >>
               THEN resolveError' = InvalidUrl /\ resolvePc' = "rejected"
               ELSE resolveError' = "" /\ resolvePc' = "resolved"
    /\ UNCHANGED << inputId, inputShape, urlInput, videoUrl, selectVars,
                    parseVars >>
    /\ UNCHANGED << handlerVars, accountVars, proxyVars >>

\* fetchTranscriptClientSide, up to `if (!videoId) throw`.
ResolveVideoIdClientSide ==
    /\ resolvePc = "request"
    /\ resolver' = "browser"
    /\ videoId' = ClientVideoIdOf(videoUrl)
    /\ IF ClientVideoIdOf(videoUrl) = << >>
       THEN resolveError' = InvalidUrl /\ resolvePc' = "rejected"
       ELSE resolveError' = "" /\ resolvePc' = "resolved"
    /\ UNCHANGED << inputId, inputShape, urlInput, videoUrl, selectVars,
                    parseVars >>
    /\ UNCHANGED << handlerVars, accountVars, proxyVars >>

ResolveIdle ==
    /\ inputId = << >>
    /\ inputShape = "none"
    /\ urlInput = << >>
    /\ videoUrl = << >>
    /\ videoId = << >>
    /\ resolver = "none"
    /\ resolvePc = "idle"
    /\ resolveError = ""

----------------------------------------------------------------------------
(* POST /api/transcribe: values of the request and of the store *)

\* The invocations of the handler that may run at the same time.
Requests == { "r1", "r2" }

\* JavaScript values of the JSON body: undefined (the key is missing), null
\* and strings. Truthy is what `!x`, `x || y` and `if (x)` test.
Undef == [ t |-> "undefined", v |-> << >> ]

Null == [ t |-> "null", v |-> << >> ]

Str(s) == [ t |-> "string", v |-> s ]

Truthy(x) == x.t = "string" /\ x.v # << >>

\* x || dflt for a string default.
OrElse(x, dflt) == IF Truthy(x) THEN x.v ELSE dflt

\* A message is the sequence of the parts its template joins; a fixed
\* message has one part.
Msg(text) == << text >>

NoMsg == << >>

QuotaReached == "Monthly free limit reached. Upgrade to Pro for more."
InternalServerError == "Internal server error"
PageNotLoaded == "Failed to load YouTube video page"
NoCaptionsMarker ==
    "No captions available for this video. The video may not have subtitles."
TracksNotParsed == "Failed to parse caption tracks data"
CaptionDataNotFetched == "Failed to fetch caption data"
NoAiKey == "No AI key configured (GEMINI_API_KEY or ANTHROPIC_API_KEY)"
UnknownSummaryError == "Unknown summary error"

\* Messages of errors the runtime throws: url.match on undefined, req.json()
\* on a body that is not JSON, fetch on a transport failure.
MatchOfUndefined == "Cannot read properties of undefined (reading 'match')"
JsonSyntaxError == "Unexpected end of JSON input"
FetchFailed == "fetch failed"

\* Status and body of an error response of a summary backend.
BackendStatus == "429"
BackendBody == "RESOURCE_EXHAUSTED: quota exceeded for project 1234"

SampleVideoId == << "d", "Q", "w", "4", "w", "9", "W", "g", "X", "c", "Q" >>

WatchUrl == WatchPrefix \o << "v", "=" >> \o SampleVideoId

\* videoUrl of the body: missing, empty, not a YouTube URL, a watch URL.
RequestUrls ==
    { Undef, Str(<< >>), Str(<< "n", "o", "p", "e" >>), Str(WatchUrl) }

HelloWorld == Hello \o << " " >> \o World

HelloWorldTimestamped ==
    << "[", "0", "0", ":", "0", "1", "]", " " >> \o HelloWorld

NoClientTranscript ==
    [ present |-> FALSE, videoId |-> Undef, text |-> Undef,
      timestamped |-> Undef ]

\* clientTranscript of the body: missing, or an object whose videoId is
\* missing, an identifier or some other text, and whose text is missing,
\* one blank, or words with their timestamped text. The requests of the
\* model carry no title, channel or language, so that the handler uses its
\* defaults for them.
ClientTranscripts ==
    { NoClientTranscript } \cup
    { [ present |-> TRUE, videoId |-> id, text |-> text,
        timestamped |-> IF text = Str(HelloWorld)
                        THEN Str(HelloWorldTimestamped) ELSE Undef ] :
          id \in { Undef, Str(SampleVideoId), Str(<< "x" >>) },
          text \in { Undef, Str(<< " " >>), Str(HelloWorld) } }

\* The authorization header: none, a token auth.getUser rejects, the token
\* of the account.
Authorizations == { "none", "Bearer stale", "Bearer acct" }

\* A request whose body req.json() rejects.
MalformedRequest ==
    [ json |-> "malformed", videoUrl |-> Undef,
      clientTranscript |-> NoClientTranscript, withSummary |-> TRUE,
      authorization |-> "none" ]

\* The requests of the model; withSummary is true when the body has none.
IncomingRequests ==
    { MalformedRequest } \cup
    [ json : { "ok" },
      videoUrl : RequestUrls,
      clientTranscript : ClientTranscripts,
      withSummary : BOOLEAN,
      authorization : Authorizations ]

\* process.env.GEMINI_API_KEY and ANTHROPIC_API_KEY: unset, the
\* placeholder of the environment template, a key.
ApiKeys == { "", "placeholder", "key" }

Environments == [ GEMINI_API_KEY : ApiKeys, ANTHROPIC_API_KEY : ApiKeys ]

NoProfile == [ exists |-> FALSE, plan |-> "none", credits_remaining |-> 0 ]

\* The row of the account in table profiles, if there is one.
Profiles ==
    { NoProfile } \cup
    [ exists : { TRUE }, plan : { "free", "pro" },
      credits_remaining : 0..MaxCredits ]

NoResponse ==
    [ status |-> 0, error |-> NoMsg, fallbackToClient |-> FALSE, id |-> 0,
      videoId |-> << >>, title |-> "", channel |-> "", text |-> << >>,
      timestamped |-> << >>, language |-> "", wordCount |-> 0,
      summary |-> Null, summaryError |-> NoMsg ]

\* NextResponse.json({ error }, { status })
ErrorResponse(status, message) ==
    [ NoResponse EXCEPT !.status = status, !.error = message ]

\* NextResponse.json({ error: error.message, fallbackToClient: true },
\*                   { status: 422 })
FallbackResponse(message) ==
    [ NoResponse EXCEPT !.status = 422, !.error = message,
                        !.fallbackToClient = TRUE ]

\* catch (error): error.message || 'Internal server error', status 500
CaughtResponse(message) ==
    ErrorResponse(500, IF message = NoMsg THEN Msg(InternalServerError)
                       ELSE message)

LocalInit ==
    [ videoId |-> << >>, userId |-> "", title |-> "", channel |-> "",
      language |-> "", plainText |-> << >>, timestampedText |-> << >>,
      profile |-> NoProfile,
      summary |-> Null, summaryError |-> NoMsg, wordCount |-> 0,
      transcriptionId |-> 0, currentProfile |-> NoProfile,
      captionUrl |-> "" ]

\* The invocation returns resp.
Return(r, resp) ==
    /\ response' = [ response EXCEPT ![r] = resp ]
    /\ pc' = [ pc EXCEPT ![r] = "done" ]

\* The invocation goes on at position next.
Goto(r, next) ==
    /\ pc' = [ pc EXCEPT ![r] = next ]
    /\ UNCHANGED response

\* The invocation issues an upstream or store call, which ends with
\* outcome.
Call(r, name, outcome) ==
    calls' = [ calls EXCEPT
                 ![r] = Append(@, [ name |-> name, outcome |-> outcome ]) ]

----------------------------------------------------------------------------
(* POST /api/transcribe: the handler, one action per section of its code *)

componentVars ==
    << selectVars, parseVars, resolveVars, accountVars, proxyVars >>

\* What the host answers when it ends an invocation at maxDuration.
PlatformTimeout == "FUNCTION_INVOCATION_TIMEOUT"

\* An awaited fetch that never settles. No fetch of the handler carries a
\* signal or a timer: the invocation stays at the await, unless the host
\* enforces `export const maxDuration = 60` and ends it.
NeverSettles(r) ==
    \E enforced \in BOOLEAN :
        IF enforced
        THEN Return(r, ErrorResponse(504, Msg(PlatformTimeout)))
        ELSE pc' = [ pc EXCEPT ![r] = "hung" ] /\ UNCHANGED response

\* req.json(), the test of the body and the video identifier; an error
\* thrown here reaches the catch of POST.
ParseRequest(r) ==
    /\ pc[r] = "request"
    /\ LET q == request[r]
           ct == q.clientTranscript
       IN  IF q.json = "malformed"
           THEN Return(r, CaughtResponse(Msg(JsonSyntaxError)))
                    /\ UNCHANGED local
           ELSE IF ~Truthy(q.videoUrl) /\ ~ct.present
           THEN Return(r, ErrorResponse(400, Msg(UrlRequired)))
                    /\ UNCHANGED local
           ELSE IF ct.present /\ Truthy(ct.videoId)
           THEN /\ local' = [ local EXCEPT ![r].videoId = ct.videoId.v ]
                /\ Goto(r, "auth")
           ELSE IF q.videoUrl.t = "undefined"
           THEN Return(r, CaughtResponse(Msg(MatchOfUndefined)))
                    /\ UNCHANGED local
           ELSE IF ExtractVideoIdOf(q.videoUrl.v) = << >>
           THEN Return(r, ErrorResponse(400, Msg(InvalidUrl)))
                    /\ UNCHANGED local
           ELSE /\ local' = [ local EXCEPT
                                ![r].videoId = ExtractVideoIdOf(q.videoUrl.v) ]
                /\ Goto(r, "auth")
    /\ UNCHANGED << request, calls, env, profile, transcriptions,
                    componentVars >>

\* Authenticate user (optional): supabase.auth.getUser(token) if there is
\* an authorization header.
Authenticate(r) ==
    /\ pc[r] = "auth"
    /\ IF request[r].authorization = "none"
       THEN UNCHANGED << local, calls >>
       ELSE LET user == IF request[r].authorization = "Bearer acct"
                        THEN "acct" ELSE ""
            IN  /\ Call(r, "getUser", IF user = "" THEN "none" ELSE "user")
                /\ local' = [ local EXCEPT ![r].userId = user ]
    /\ Goto(r, "credits")
    /\ UNCHANGED << request, env, profile, transcriptions, componentVars >>

\* The test with < for <=.
QuotaExhausted_Negative(row) ==
    row.exists /\ row.plan = "free" /\ row.credits_remaining < 0

\* profile && profile.plan === 'free' && profile.credits_remaining <= 0
QuotaExhausted(row) ==
    row.exists /\ row.plan = "free" /\ row.credits_remaining <= 0

\* Check credits (if authenticated free user).
CheckCredits(r) ==
    /\ pc[r] = "credits"
    /\ IF local[r].userId = ""
       THEN Goto(r, "source") /\ UNCHANGED << calls, local >>
       ELSE /\ Call(r, "selectProfile",
                    IF profile.exists THEN "row" ELSE "none")
            /\ local' = [ local EXCEPT ![r].profile = profile ]
            /\ IF QuotaExhausted(profile)
               THEN Return(r, ErrorResponse(402, Msg(QuotaReached)))
               ELSE Goto(r, "source")
    /\ UNCHANGED << request, env, profile, transcriptions, componentVars >>

\* Server-side extraction whatever the body carries.
TranscriptSource_Server(r) ==
    /\ pc[r] = "source"
    /\ UNCHANGED local
    /\ Goto(r, "metadata")
    /\ UNCHANGED << request, calls, env, profile, transcriptions,
                    componentVars >>

\* `if (clientTranscript?.text)`: the transcript of the body, or server-side
\* extraction.
TranscriptSource(r) ==
    /\ pc[r] = "source"
    /\ LET ct == request[r].clientTranscript
       IN  IF ct.present /\ Truthy(ct.text)
           THEN /\ local' = [ local EXCEPT
                                ![r].plainText = ct.text.v,
                                ![r].timestampedText =
                                    OrElse(ct.timestamped, << >>),
                                ![r].language = "auto",
                                ![r].title = "Unknown",
                                ![r].channel = "Unknown" ]
                /\ Goto(r, "summary")
           ELSE UNCHANGED local /\ Goto(r, "metadata")
    /\ UNCHANGED << request, calls, env, profile, transcriptions,
                    componentVars >>

\* How the oEmbed call ends.
MetadataOutcomes == { "ok", "notOk", "silent" }

\* fetchVideoMetadata: title and author of oEmbed, 'Unknown' on any failure.
FetchVideoMetadata(r) ==
    /\ pc[r] = "metadata"
    /\ \E outcome \in MetadataOutcomes :
           /\ Call(r, "oembed", outcome)
           /\ IF outcome = "silent"
              THEN NeverSettles(r) /\ UNCHANGED local
              ELSE /\ local' = [ local EXCEPT
                                   ![r].title = IF outcome = "ok"
                                                THEN "Title" ELSE "Unknown",
                                   ![r].channel = IF outcome = "ok"
                                                  THEN "Channel"
                                                  ELSE "Unknown" ]
                   /\ Goto(r, "page")
    /\ UNCHANGED << request, env, profile, transcriptions, componentVars >>

\* Track lists of the video page: none, a track without baseUrl, an
\* auto-generated track before a manual one.
PageTrackLists ==
    { << >>,
      << [ languageCode |-> "en", kind |-> "asr", baseUrl |-> "" ] >>,
      << [ languageCode |-> "en", kind |-> "asr", baseUrl |-> "u" ],
         [ languageCode |-> "pt", kind |-> "manual", baseUrl |-> "u" ] >> }

\* How the fetch of the video page ends: no answer, a transport error, a
\* status that is not ok, a page without the "captionTracks" marker, a
\* marker whose span is not JSON, a track list.
PageOutcomes ==
    { [ kind |-> k, tracks |-> << >> ] :
          k \in { "silent", "throws", "notOk", "noMarker", "badJson" } }
    \cup { [ kind |-> "tracks", tracks |-> t ] : t \in PageTrackLists }

\* How fetchTranscript ends on a page: "" when it goes on to the caption
\* payload, else the message of the Error it throws.
PageFailure(page) ==
    IF page.kind = "throws" THEN FetchFailed
    ELSE IF page.kind = "notOk" THEN PageNotLoaded
    ELSE IF page.kind = "noMarker" THEN NoCaptionsMarker
    ELSE IF page.kind = "badJson" THEN TracksNotParsed
    ELSE IF Len(page.tracks) = 0 THEN NoCaptionTracksRoute
    ELSE IF page.tracks[RouteSelect(page.tracks)].baseUrl = ""
    THEN NoCaptionUrl
    ELSE ""

\* What the log keeps of a page: its kind, and for a track list whether it
\* is empty, lacks the URL of the selected track, or is usable.
PageLogged(page) ==
    IF page.kind # "tracks" THEN page.kind
    ELSE IF Len(page.tracks) = 0 THEN "noTracks"
    ELSE IF PageFailure(page) = NoCaptionUrl THEN "noUrl"
    ELSE "tracks"

\* fetchTranscript called outside a try of its own: its Error reaches the
\* catch of POST.
ExtractionFailed_Uncaught(r, message) ==
    Return(r, CaughtResponse(Msg(message)))

\* try { fetchTranscript } catch (error): 422 with error.message and
\* fallbackToClient.
ExtractionFailed(r, message) ==
    Return(r, FallbackResponse(Msg(message)))

\* fetchTranscript from the video page to the caption URL.
FetchVideoPage(r) ==
    /\ pc[r] = "page"
    /\ \E page \in PageOutcomes :
           /\ Call(r, "videoPage", PageLogged(page))
           /\ IF page.kind = "silent"
              THEN NeverSettles(r) /\ UNCHANGED local
              ELSE IF PageFailure(page) # ""
              THEN ExtractionFailed(r, PageFailure(page)) /\ UNCHANGED local
              ELSE LET track == page.tracks[RouteSelect(page.tracks)]
                   IN  /\ local' = [ local EXCEPT
                                       ![r].captionUrl = track.baseUrl,
                                       ![r].language = track.languageCode ]
                       /\ Goto(r, "captions")
    /\ UNCHANGED << request, env, profile, transcriptions, componentVars >>

\* Caption payloads of the model: no tag, the two <p> tags Hello and World,
\* a <text> tag whose text is a character reference of a blank.
CaptionPayloads ==
    { << >>,
      << [ el |-> "p", start |-> << "1", "0", "0", "0" >>,
           dur |-> << "5", "0", "0" >>, inner |-> Hello ],
         [ el |-> "p", start |-> << "2", "0", "0", "0" >>,
           dur |-> << "5", "0", "0" >>, inner |-> World ] >>,
      << [ el |-> "text", start |-> << "1", ".", "5" >>,
           dur |-> << "0", ".", "5" >>,
           inner |-> << "&", "#", "3", "2", ";" >> ] >> }

CaptionOutcomes ==
    { [ kind |-> k, xml |-> << >> ] : k \in { "silent", "throws", "notOk" } }
    \cup { [ kind |-> "xml", xml |-> x ] : x \in CaptionPayloads }

CaptionFailure(got) ==
    IF got.kind = "throws" THEN FetchFailed
    ELSE IF got.kind = "notOk" THEN CaptionDataNotFetched
    ELSE IF Len(RouteSegments(got.xml)) = 0 THEN NoSegmentsRoute
    ELSE ""

CaptionLogged(got) ==
    IF got.kind # "xml" THEN got.kind
    ELSE IF Len(RouteSegments(got.xml)) = 0 THEN "noSegments"
    ELSE "segments"

\* fetchTranscript from the fetch of the caption payload to its result.
FetchCaptions(r) ==
    /\ pc[r] = "captions"
    /\ \E got \in CaptionOutcomes :
           /\ Call(r, "captions", CaptionLogged(got))
           /\ IF got.kind = "silent"
              THEN NeverSettles(r) /\ UNCHANGED local
              ELSE IF CaptionFailure(got) # ""
              THEN ExtractionFailed(r, CaptionFailure(got))
                       /\ UNCHANGED local
              ELSE LET segs == RouteSegments(got.xml)
                   IN  /\ local' = [ local EXCEPT
                                       ![r].plainText = PlainTextOf(segs),
                                       ![r].timestampedText =
                                           TimestampedTextOf(segs) ]
                       /\ Goto(r, "summary")
    /\ UNCHANGED << request, env, profile, transcriptions, componentVars >>

Configured(key) == key # "" /\ key # "placeholder"

\* How the call of a summary backend ends: a text, an answer without text
\* (`|| ''`), an error status, a transport error, an error without
\* message, no answer.
BackendOutcomes ==
    { "text", "noText", "notOk", "throws", "throwsBare", "silent" }

SummaryText == << "#", "#", " ", "K", "e", "y" >>

\* `${name} API error: ${res.status} - ${err}`
BackendError(name) ==
    << name, " API error: ", BackendStatus, " - ", BackendBody >>

\* e.message of what a backend call throws, NoMsg when it returns.
BackendThrows(name, outcome) ==
    IF outcome = "notOk" THEN BackendError(name)
    ELSE IF outcome = "throws" THEN Msg(FetchFailed)
    ELSE NoMsg

\* The two tests in the other order.
BackendFor_AnthropicFirst(geminiKey, anthropicKey) ==
    IF Configured(anthropicKey) THEN "Anthropic"
    ELSE IF Configured(geminiKey) THEN "Gemini"
    ELSE ""

\* The backend the keys select: "Gemini", "Anthropic" or "" for none.
BackendFor(geminiKey, anthropicKey) ==
    IF Configured(geminiKey) THEN "Gemini"
    ELSE IF Configured(anthropicKey) THEN "Anthropic"
    ELSE ""

\* The summary call outside a try of its own: what it throws reaches the
\* catch of POST.
CatchSummaryError_Rethrown(r, message) ==
    Return(r, CaughtResponse(message)) /\ UNCHANGED local

\* catch (e): summaryError = e.message || 'Unknown summary error', and the
\* handler goes on.
CatchSummaryError(r, message) ==
    /\ local' = [ local EXCEPT ![r].summaryError =
                    IF message = NoMsg THEN Msg(UnknownSummaryError)
                    ELSE message ]
    /\ Goto(r, "insert")

\* Generate AI summary (if requested and API key available).
Summarize(r) ==
    /\ pc[r] = "summary"
    /\ LET backend == BackendFor(env.GEMINI_API_KEY, env.ANTHROPIC_API_KEY)
       IN  IF ~(request[r].withSummary /\ local[r].plainText # << >>)
           THEN Goto(r, "insert") /\ UNCHANGED << local, calls >>
           ELSE IF backend = ""
           THEN /\ local' = [ local EXCEPT ![r].summaryError = Msg(NoAiKey) ]
                /\ Goto(r, "insert")
                /\ UNCHANGED calls
           ELSE \E outcome \in BackendOutcomes :
                    /\ Call(r, backend, outcome)
                    /\ IF outcome = "silent"
                       THEN NeverSettles(r) /\ UNCHANGED local
                       ELSE IF outcome \in { "text", "noText" }
                       THEN /\ local' = [ local EXCEPT ![r].summary =
                                            IF outcome = "text"
                                            THEN Str(SummaryText)
                                            ELSE Str(<< >>) ]
                            /\ Goto(r, "insert")
                       ELSE CatchSummaryError(r,
                                BackendThrows(backend, outcome))
    /\ UNCHANGED << request, env, profile, transcriptions, componentVars >>

\* The row POST inserts into table transcriptions.
TranscriptionRow(r, loc) ==
    [ user_id |-> loc.userId,
      video_id |-> loc.videoId,
      video_url |-> request[r].videoUrl,
      title |-> loc.title,
      channel_name |-> loc.channel,
      transcript_text |-> loc.plainText,
      transcript_timestamped |-> loc.timestampedText,
      transcript_language |-> loc.language,
      word_count |-> loc.wordCount,
      summary |-> loc.summary,
      status |-> "completed" ]

\* wordCount, then Save to database (if authenticated): the insert answers
\* with the id of the row, or with no data when it failed.
InsertTranscription(r) ==
    /\ pc[r] = "insert"
    /\ LET loc == [ local[r] EXCEPT
                      !.wordCount = WordCountOf(local[r].plainText) ]
       IN  IF loc.userId = ""
           THEN /\ local' = [ local EXCEPT ![r] = loc ]
                /\ Goto(r, "respond")
                /\ UNCHANGED << calls, transcriptions >>
           ELSE /\ Goto(r, "readCredits")
                /\ \E inserted \in BOOLEAN :
                       /\ Call(r, "insert",
                               IF inserted THEN "row" ELSE "none")
                       /\ IF inserted
                          THEN /\ transcriptions' =
                                      Append(transcriptions,
                                             TranscriptionRow(r, loc))
                               /\ local' = [ local EXCEPT ![r] =
                                      [ loc EXCEPT !.transcriptionId =
                                            Len(transcriptions) + 1 ] ]
                          ELSE /\ UNCHANGED transcriptions
                               /\ local' = [ local EXCEPT ![r] = loc ]
    /\ UNCHANGED << request, env, profile, componentVars >>

\* The test with >= for >.
HasCredits_OrNone(row) == row.exists /\ row.credits_remaining >= 0

\* currentProfile && currentProfile.credits_remaining > 0
HasCredits(row) == row.exists /\ row.credits_remaining > 0

\* Decrement credits for free users: the select of credits_remaining and
\* the test of its result.
ReadCredits(r) ==
    /\ pc[r] = "readCredits"
    /\ Call(r, "selectCredits", IF profile.exists THEN "row" ELSE "none")
    /\ local' = [ local EXCEPT ![r].currentProfile = profile ]
    /\ IF HasCredits(profile)
       THEN Goto(r, "updateCredits")
       ELSE Goto(r, "respond")
    /\ UNCHANGED << request, env, profile, transcriptions, componentVars >>

\* The decrement done by the store in one statement, on the value the row
\* holds at the update.
UpdateCredits_Atomic(r) ==
    /\ pc[r] = "updateCredits"
    /\ Call(r, "updateCredits", IF profile.exists THEN "row" ELSE "none")
    /\ profile' = IF profile.exists
                  THEN [ profile EXCEPT !.credits_remaining = @ - 1 ]
                  ELSE profile
    /\ Goto(r, "respond")
    /\ UNCHANGED << request, local, env, transcriptions, componentVars >>

\* update({ credits_remaining: currentProfile.credits_remaining - 1 })
UpdateCredits(r) ==
    /\ pc[r] = "updateCredits"
    /\ Call(r, "updateCredits", IF profile.exists THEN "row" ELSE "none")
    /\ profile' = IF profile.exists
                  THEN [ profile EXCEPT !.credits_remaining =
                           local[r].currentProfile.credits_remaining - 1 ]
                  ELSE profile
    /\ Goto(r, "respond")
    /\ UNCHANGED << request, local, env, transcriptions, componentVars >>

\* The success response.
SuccessResponse(loc) ==
    [ NoResponse EXCEPT
        !.status = 200,
        !.id = loc.transcriptionId,
        !.videoId = loc.videoId,
        !.title = loc.title,
        !.channel = loc.channel,
        !.text = loc.plainText,
        !.timestamped = loc.timestampedText,
        !.language = loc.language,
        !.wordCount = loc.wordCount,
        !.summary = loc.summary,
        !.summaryError = loc.summaryError ]

Respond(r) ==
    /\ pc[r] = "respond"
    /\ Return(r, SuccessResponse(local[r]))
    /\ UNCHANGED << request, local, calls, env, profile, transcriptions,
                    componentVars >>

\* No request was received.
HandlerIdle ==
    /\ request = [ r \in Requests |-> MalformedRequest ]
    /\ pc = [ r \in Requests |-> "idle" ]
    /\ local = [ r \in Requests |-> LocalInit ]
    /\ response = [ r \in Requests |-> NoResponse ]
    /\ calls = [ r \in Requests |-> << >> ]
    /\ env = [ GEMINI_API_KEY |-> "", ANTHROPIC_API_KEY |-> "" ]
    /\ profile = NoProfile
    /\ transcriptions = << >>

----------------------------------------------------------------------------
(* POST /api/webhooks: Stripe events that write the account's row *)

\* credits_remaining: plan === 'pro' ? 50 : 999999, and 3 for the free plan
\* after customer.subscription.deleted.
ProCredits == 50

UnlimitedCredits == 999999

FreeCredits == 3

EventTypes ==
    { "checkout.session.completed", "customer.subscription.updated",
      "customer.subscription.deleted", "invoice.payment_failed" }

\* The deliveries of the model: each event type for the customer of the
\* account, checkout with session.metadata.plan missing ("") or
\* 'business'; a delivery whose signature constructEvent rejects; a
\* delivery to a deployment without STRIPE_SECRET_KEY.
Deliveries ==
    { [ type |-> t, plan |-> "", configured |-> TRUE, signed |-> TRUE ] :
          t \in EventTypes }
    \cup { [ type |-> "checkout.session.completed", plan |-> "business",
             configured |-> TRUE, signed |-> TRUE ],
           [ type |-> "checkout.session.completed", plan |-> "",
             configured |-> TRUE, signed |-> FALSE ],
           [ type |-> "checkout.session.completed", plan |-> "",
             configured |-> FALSE, signed |-> TRUE ] }

\* What POST answers to a delivery: 503 without the key, 400 for a bad
\* signature, { received: true } otherwise.
WebhookStatus(d) ==
    IF ~d.configured THEN 503
    ELSE IF ~d.signed THEN 400
    ELSE 200

\* The row after the update of the case of event.type. The columns of the
\* model are plan and credits_remaining; the other cases write neither.
WebhookUpdate(row, d) ==
    IF d.type = "checkout.session.completed"
    THEN LET plan == IF d.plan = "" THEN "pro" ELSE d.plan
         IN  [ row EXCEPT !.plan = plan,
                          !.credits_remaining =
                              IF plan = "pro" THEN ProCredits
                              ELSE UnlimitedCredits ]
    ELSE IF d.type = "customer.subscription.deleted"
    THEN [ row EXCEPT !.plan = "free", !.credits_remaining = FreeCredits ]
    ELSE row

\* POST /api/webhooks handles one delivery.
Webhook ==
    /\ Len(events) < MaxEvents
    /\ \E d \in Deliveries :
           /\ events' = Append(events, [ type |-> d.type, plan |-> d.plan,
                                         status |-> WebhookStatus(d) ])
           /\ profile' = IF WebhookStatus(d) = 200 /\ profile.exists
                         THEN WebhookUpdate(profile, d)
                         ELSE profile
    /\ UNCHANGED << request, pc, local, response, calls, env,
                    transcriptions, opening, selectVars, parseVars,
                    resolveVars, proxyVars >>

\* No event was delivered, and no account is observed.
AccountIdle ==
    /\ events = << >>
    /\ opening = NoProfile

----------------------------------------------------------------------------
(* GET /api/yt-page: the edge proxy *)

UpperCase ==
    << "A", "B", "C", "D", "E", "F", "G", "H", "I", "J", "K", "L", "M", "N",
       "O", "P", "Q", "R", "S", "T", "U", "V", "W", "X", "Y", "Z" >>

LowerCase ==
    << "a", "b", "c", "d", "e", "f", "g", "h", "i", "j", "k", "l", "m", "n",
       "o", "p", "q", "r", "s", "t", "u", "v", "w", "x", "y", "z" >>

ToLowerCase(s) ==
    [ i \in 1..Len(s) |->
        IF \E k \in 1..26 : UpperCase[k] = s[i]
        THEN LowerCase[CHOOSE k \in 1..26 : UpperCase[k] = s[i]]
        ELSE s[i] ]

EndsWith(s, pat) ==
    Len(s) >= Len(pat) /\ SubSeq(s, Len(s) - Len(pat) + 1, Len(s)) = pat

\* The longest prefix of s without a character of stops.
RECURSIVE UpTo(_, _)
UpTo(s, stops) ==
    IF s = << >> \/ Head(s) \in stops THEN << >>
    ELSE << Head(s) >> \o UpTo(Tail(s), stops)

\* What follows the last occurrence of c in s, s itself when there is none.
RECURSIVE AfterLast(_, _)
AfterLast(s, c) ==
    IF \E i \in 1..Len(s) : s[i] = c
    THEN AfterLast(Drop(s, CHOOSE i \in 1..Len(s) : s[i] = c), c)
    ELSE s

HttpScheme == << "h", "t", "t", "p", ":", "/", "/" >>

HttpsScheme == << "h", "t", "t", "p", "s", ":", "/", "/" >>

\* new URL(url) accepts the http and https URLs of the model and throws on
\* a text without scheme.
IsUrl(url) == StartsWith(url, HttpScheme) \/ StartsWith(url, HttpsScheme)

\* new URL(url).hostname: the authority between the scheme and the first
\* of / ? #, without user info and port, in lower case.
Hostname(url) ==
    LET rest == IF StartsWith(url, HttpsScheme)
                THEN Drop(url, Len(HttpsScheme))
                ELSE Drop(url, Len(HttpScheme))
        authority == UpTo(rest, { "/", "?", "#" })
    IN  ToLowerCase(UpTo(AfterLast(authority, "@"), { ":" }))

YoutubeCom == << "y", "o", "u", "t", "u", "b", "e", ".", "c", "o", "m" >>

NoCookieCom ==
    << "y", "o", "u", "t", "u", "b", "e", "-", "n", "o", "c", "o", "o", "k",
       "i", "e", ".", "c", "o", "m" >>

\* !hostname.endsWith('youtube.com') &&
\* !hostname.endsWith('youtube-nocookie.com')
HostRejected(hostname) ==
    ~EndsWith(hostname, YoutubeCom) /\ ~EndsWith(hostname, NoCookieCom)

\* A caption URL
TimedTextUrl ==
    << "h", "t", "t", "p", "s", ":", "/", "/", "w", "w", "w", ".", "y",
       "o", "u", "t", "u", "b", "e", ".", "c", "o", "m", "/", "a", "p",
       "i", "/", "t", "i", "m", "e", "d", "t", "e", "x", "t", "?", "v",
       "=", "x" >>

\* The apex host, with a port
ApexUrl ==
    << "h", "t", "t", "p", ":", "/", "/", "y", "o", "u", "t", "u", "b",
       "e", ".", "c", "o", "m", ":", "8", "0", "8", "0", "/", "w", "a",
       "t", "c", "h" >>

\* The embed host
NoCookieUrl ==
    << "h", "t", "t", "p", "s", ":", "/", "/", "w", "w", "w", ".", "y",
       "o", "u", "t", "u", "b", "e", "-", "n", "o", "c", "o", "o", "k",
       "i", "e", ".", "c", "o", "m", "/", "e", "m", "b", "e", "d", "/",
       "x" >>

\* A host in mixed case
MixedCaseUrl ==
    << "h", "t", "t", "p", "s", ":", "/", "/", "w", "w", "w", ".", "Y",
       "o", "u", "T", "u", "b", "e", ".", "c", "o", "m", "/", "w", "a",
       "t", "c", "h" >>

\* A host that ends with youtube.com
NotYoutubeUrl ==
    << "h", "t", "t", "p", "s", ":", "/", "/", "n", "o", "t", "y", "o",
       "u", "t", "u", "b", "e", ".", "c", "o", "m", "/", "x" >>

\* A host that ends with youtube-nocookie.com
NotNoCookieUrl ==
    << "h", "t", "t", "p", "s", ":", "/", "/", "e", "v", "i", "l", "-",
       "y", "o", "u", "t", "u", "b", "e", "-", "n", "o", "c", "o", "o",
       "k", "i", "e", ".", "c", "o", "m", "/" >>

\* Another host, the name in the query
QueryUrl ==
    << "h", "t", "t", "p", "s", ":", "/", "/", "e", "x", "a", "m", "p",
       "l", "e", ".", "c", "o", "m", "/", "?", "u", "=", "y", "o", "u",
       "t", "u", "b", "e", ".", "c", "o", "m" >>

\* Another host, the name as its prefix
PrefixUrl ==
    << "h", "t", "t", "p", "s", ":", "/", "/", "y", "o", "u", "t", "u",
       "b", "e", ".", "c", "o", "m", ".", "e", "v", "i", "l", ".", "n",
       "e", "t", "/" >>

\* Another host, the name as user info
UserInfoUrl ==
    << "h", "t", "t", "p", "s", ":", "/", "/", "y", "o", "u", "t", "u",
       "b", "e", ".", "c", "o", "m", "@", "e", "v", "i", "l", ".", "n",
       "e", "t", "/" >>

\* No scheme: new URL throws
NoSchemeUrl ==
    << "y", "o", "u", "t", "u", "b", "e", ".", "c", "o", "m", "/", "w",
       "a", "t", "c", "h" >>

\* The url parameter of the query: missing, empty, or one of the targets.
ProxyUrls ==
    { Undef, Str(<< >>) } \cup
    { Str(u) : u \in { TimedTextUrl, ApexUrl, NoCookieUrl, MixedCaseUrl,
                       NotYoutubeUrl, NotNoCookieUrl, QueryUrl,
                       PrefixUrl, UserInfoUrl, NoSchemeUrl } }

\* The v parameter of the query: missing, empty, an identifier.
ProxyVideoIds == { Undef, Str(<< >>), Str(SampleVideoId) }

ProxyRequests == [ url : ProxyUrls, v : ProxyVideoIds ]

NoProxyRequest == [ url |-> Undef, v |-> Undef ]

NoProxyResponse == [ status |-> 0, body |-> "" ]

\* directUrl || (videoId ? `https://www.youtube.com/watch?v=${videoId}`
\*                       : null), << >> for null.
TargetUrl(q) ==
    IF Truthy(q.url) THEN q.url.v
    ELSE IF Truthy(q.v) THEN WatchPrefix \o << "v", "=" >> \o q.v.v
    ELSE << >>

\* GET up to the fetch: the target URL and the test of its host.
ProxyCheck ==
    /\ proxyPc = "request"
    /\ LET targetUrl == TargetUrl(proxyRequest)
       IN  IF targetUrl = << >>
           THEN /\ proxyResponse' = [ status |-> 400,
                                      body |-> "Missing v or url parameter" ]
                /\ proxyPc' = "done"
           ELSE IF ~IsUrl(targetUrl)
           THEN /\ proxyResponse' = [ status |-> 400,
                                      body |-> "Invalid URL" ]
                /\ proxyPc' = "done"
           ELSE IF HostRejected(Hostname(targetUrl))
           THEN /\ proxyResponse' = [ status |-> 403,
                                      body |-> "Only YouTube URLs allowed" ]
                /\ proxyPc' = "done"
           ELSE /\ proxyPc' = "fetch"
                /\ UNCHANGED proxyResponse
    /\ UNCHANGED << proxyRequest, proxyFetched, selectVars, parseVars,
                    resolveVars, handlerVars, accountVars >>

\* How the upstream fetch ends: a page, an error status, a transport error.
UpstreamOutcomes == { "ok", "notOk", "throws" }

\* fetch(targetUrl) and the response: the text of whatever upstream
\* answered with status 200, or 500 when the fetch threw.
ProxyFetch ==
    /\ proxyPc = "fetch"
    /\ proxyFetched' = Append(proxyFetched, TargetUrl(proxyRequest))
    /\ \E outcome \in UpstreamOutcomes :
           proxyResponse' =
               IF outcome = "throws"
               THEN [ status |-> 500, body |-> "Fetch error: fetch failed" ]
               ELSE [ status |-> 200,
                      body |-> IF outcome = "ok" THEN "page"
                               ELSE "upstream error page" ]
    /\ proxyPc' = "done"
    /\ UNCHANGED << proxyRequest, selectVars, parseVars, resolveVars,
                    handlerVars, accountVars >>

\* No request was received.
ProxyIdle ==
    /\ proxyRequest = NoProxyRequest
    /\ proxyPc = "idle"
    /\ proxyResponse = NoProxyResponse
    /\ proxyFetched = << >>

----------------------------------------------------------------------------
(* Specifications *)

InitSelect ==
    /\ captionTracks \in SeqsUpTo(Tracks, MaxTracks)
    /\ selectedTrack = 0
    /\ selector = "none"
    /\ selectPc = "listed"
    /\ selectError = ""
    /\ ParseIdle
    /\ ResolveIdle
    /\ HandlerIdle
    /\ AccountIdle
    /\ ProxyIdle

NextSelect == SelectTrack \/ SelectTrackPreferred

\* Track selection over every track list of the model.
SpecSelect == InitSelect /\ [][NextSelect]_vars

InitParse ==
    /\ \/ captionXml = << >> /\ clientText \in ClientTexts
       \/ captionXml \in Payloads /\ clientText = << >>
    /\ clientTimestamped = << >>
    /\ parser = "none"
    /\ segments = << >>
    /\ plainText = << >>
    /\ timestampedText = << >>
    /\ wordCount = 0
    /\ parsePc = "request"
    /\ parseError = ""
    /\ SelectIdle
    /\ ResolveIdle
    /\ HandlerIdle
    /\ AccountIdle
    /\ ProxyIdle

NextParse ==
    \/ FetchTranscript
    \/ FetchTranscriptClientSide
    \/ UseClientTranscript
    \/ CountWords

\* Parsing, assembling and counting over every payload and client text of
\* the model.
SpecParse == InitParse /\ [][NextParse]_vars

InitResolve ==
    /\ inputId \in VideoIds
    /\ inputShape \in UrlShapes \cup { "bare", "short" }
    /\ urlInput \in InputsOf(inputShape, inputId)
    /\ videoUrl = << >>
    /\ videoId = << >>
    /\ resolver = "none"
    /\ resolvePc = "typed"
    /\ resolveError = ""
    /\ SelectIdle
    /\ ParseIdle
    /\ HandlerIdle
    /\ AccountIdle
    /\ ProxyIdle

NextResolve ==
    \/ HandleTranscribe
    \/ AutoStart
    \/ PostRequest
    \/ ResolveVideoId
    \/ ResolveVideoIdClientSide

\* Identifier resolution over every input of the model.
SpecResolve == InitResolve /\ [][NextResolve]_vars

InitProxy ==
    /\ proxyRequest \in ProxyRequests
    /\ proxyPc = "request"
    /\ proxyResponse = NoProxyResponse
    /\ proxyFetched = << >>
    /\ SelectIdle
    /\ ParseIdle
    /\ ResolveIdle
    /\ HandlerIdle
    /\ AccountIdle

NextProxy == ProxyCheck \/ ProxyFetch

\* The edge proxy over every query of the model.
SpecProxy == InitProxy /\ [][NextProxy]_vars

\* The row of an account with credits.
FreeProfile == [ exists |-> TRUE, plan |-> "free", credits_remaining |-> 1 ]

BothKeys == [ GEMINI_API_KEY |-> "key", ANTHROPIC_API_KEY |-> "key" ]

\* One request, any of the model. The keys of the environment vary where
\* the request asks for a summary, the row of the account where the request
\* carries the token of the account.
Init ==
    /\ \E q \in IncomingRequests :
           /\ request = [ r \in Requests |->
                            IF r = "r1" THEN q ELSE MalformedRequest ]
           /\ env \in IF q.withSummary THEN Environments ELSE { BothKeys }
           /\ profile \in IF q.authorization = "Bearer acct"
                           THEN Profiles ELSE { FreeProfile }
    /\ pc = [ r \in Requests |-> IF r = "r1" THEN "request" ELSE "idle" ]
    /\ local = [ r \in Requests |-> LocalInit ]
    /\ response = [ r \in Requests |-> NoResponse ]
    /\ calls = [ r \in Requests |-> << >> ]
    /\ transcriptions = << >>
    /\ events = << >>
    /\ opening = profile
    /\ SelectIdle
    /\ ParseIdle
    /\ ResolveIdle
    /\ ProxyIdle

Step(r) ==
    \/ ParseRequest(r)
    \/ Authenticate(r)
    \/ CheckCredits(r)
    \/ TranscriptSource(r)
    \/ FetchVideoMetadata(r)
    \/ FetchVideoPage(r)
    \/ FetchCaptions(r)
    \/ Summarize(r)
    \/ InsertTranscription(r)
    \/ ReadCredits(r)
    \/ UpdateCredits(r)
    \/ Respond(r)

Next == \E r \in Requests : Step(r)

\* POST /api/transcribe serving one request.
Spec == Init /\ [][Next]_vars

\* A request of the account that carries its transcript.
ClientRequest ==
    [ json |-> "ok", videoUrl |-> Undef,
      clientTranscript |->
          [ present |-> TRUE, videoId |-> Str(SampleVideoId),
            text |-> Str(HelloWorld),
            timestamped |-> Str(HelloWorldTimestamped) ],
      withSummary |-> FALSE, authorization |-> "Bearer acct" ]

\* Every invocation serves a request of the same account, which carries
\* its transcript and asks for no summary; the invocations and the webhook
\* run at the same time.
InitConcurrent ==
    /\ request = [ r \in Requests |-> ClientRequest ]
    /\ pc = [ r \in Requests |-> "request" ]
    /\ local = [ r \in Requests |-> LocalInit ]
    /\ response = [ r \in Requests |-> NoResponse ]
    /\ calls = [ r \in Requests |-> << >> ]
    /\ env = BothKeys
    /\ profile \in Profiles
    /\ transcriptions = << >>
    /\ events = << >>
    /\ opening = profile
    /\ SelectIdle
    /\ ParseIdle
    /\ ResolveIdle
    /\ ProxyIdle

\* The steps of an invocation whose request carries its transcript: the
\* steps of server-side extraction are never enabled for it.
StepWithTranscript(r) ==
    \/ ParseRequest(r)
    \/ Authenticate(r)
    \/ CheckCredits(r)
    \/ TranscriptSource(r)
    \/ Summarize(r)
    \/ InsertTranscription(r)
    \/ ReadCredits(r)
    \/ UpdateCredits(r)
    \/ Respond(r)

NextConcurrent == (\E r \in Requests : StepWithTranscript(r)) \/ Webhook

\* POST /api/transcribe serving the requests of one account concurrently,
\* while POST /api/webhooks handles Stripe events of that account.
SpecConcurrent == InitConcurrent /\ [][NextConcurrent]_vars

----------------------------------------------------------------------------
(* Vocabulary of the properties *)

\* Position of lang in the preference list, 0 when it is not in it.
PrefRank(lang) ==
    IF \E r \in 1..Len(PreferredLangs) : PreferredLangs[r] = lang
    THEN CHOOSE r \in 1..Len(PreferredLangs) : PreferredLangs[r] = lang
    ELSE 0

IsManual(t) == t.kind # "asr"

\* Indices of the tracks whose language is in the preference list.
PreferredTracks(tracks) ==
    { i \in 1..Len(tracks) : PrefRank(tracks[i].languageCode) # 0 }

PreferredManualTracks(tracks) ==
    { i \in PreferredTracks(tracks) : IsManual(tracks[i]) }

\* The earliest position of the preference list among the tracks of I.
EarliestRank(tracks, I) ==
    CHOOSE r \in { PrefRank(tracks[i].languageCode) : i \in I } :
        \A i \in I : r <= PrefRank(tracks[i].languageCode)

IsBlank(text) == \A k \in 1..Len(text) : IsSpace(text[k])

\* Text that needs no normalization: not empty, no markup, no entity
\* reference, no line break, no white space at either end.
IsPlain(text) ==
    /\ text # << >>
    /\ Trim(text) = text
    /\ \A k \in 1..Len(text) : text[k] \notin { "<", ">", "&", "\n", "\t" }

\* The number a string of decimal digits denotes, read from the left.
RECURSIVE DecimalFrom(_, _)
DecimalFrom(s, acc) ==
    IF s = << >> THEN acc
    ELSE DecimalFrom(Tail(s), acc * 10 + DigitVal(Head(s)))

Decimal(s) == DecimalFrom(s, 0)

AllDigits(s) == \A k \in 1..Len(s) : IsDigit(s[k])

\* Where the i-th text starts in texts joined by single separators.
RECURSIVE JoinedStart(_, _)
JoinedStart(texts, i) ==
    IF i = 1 THEN 1
    ELSE JoinedStart(texts, i - 1) + Len(texts[i - 1]) + 1

\* joined is the texts, in order, with exactly one sep between neighbours.
IsJoinOf(joined, texts, sep) ==
    /\ Len(texts) >= 1
    /\ Len(joined) = JoinedStart(texts, Len(texts)) + Len(texts[Len(texts)]) - 1
    /\ \A i \in 1..Len(texts) :
           /\ SubSeq(joined, JoinedStart(texts, i),
                     JoinedStart(texts, i) + Len(texts[i]) - 1) = texts[i]
           /\ i > 1 => joined[JoinedStart(texts, i) - 1] = sep

\* The lines of a text: its pieces between line breaks.
RECURSIVE LinesFrom(_, _)
LinesFrom(s, cur) ==
    IF s = << >> THEN << cur >>
    ELSE IF Head(s) = "\n"
         THEN << cur >> \o LinesFrom(Tail(s), << >>)
         ELSE LinesFrom(Tail(s), Append(cur, Head(s)))

LinesOf(s) == LinesFrom(s, << >>)

\* line is "[MM:SS] text" for a segment at offsetMillis: SS two digits, MM
\* two digits or more without padding beyond two, no hours.
IsTimestampLine(line, offsetMillis, text) ==
    LET s == offsetMillis \div 1000
        close == FirstIndex({ i \in 1..Len(line) : line[i] = "]" })
        mm == SubSeq(line, 2, close - 4)
        ss == SubSeq(line, close - 2, close - 1)
    IN  /\ close >= 7
        /\ line[1] = "["
        /\ line[close - 3] = ":"
        /\ AllDigits(mm) /\ AllDigits(ss)
        /\ Len(mm) > 2 => mm[1] # "0"
        /\ Decimal(mm) = s \div 60
        /\ Decimal(ss) = s % 60
        /\ Len(line) > close /\ line[close + 1] = " "
        /\ Drop(line, close + 1) = text

\* Number of maximal runs of characters that are not white space.
TokenCount(text) ==
    Cardinality({ k \in 1..Len(text) :
                      /\ ~IsSpace(text[k])
                      /\ k = 1 \/ IsSpace(text[k - 1]) })

Selected == selectPc = "selected"

Parsed == parser # "none"

Assembled == parsePc \in { "assembled", "responded" }

Resolved == resolvePc \in { "resolved", "rejected" }

\* Text and offset of segments, the fields both parsers fill.
TextAndOffset(segs) ==
    [ i \in 1..Len(segs) |->
        [ text |-> segs[i].text, offset |-> segs[i].offset ] ]

----------------------------------------------------------------------------
(* Track Selector properties *)

\* C1: when some manual track has a language of the preference list, the
\* selected track is manual and its language is the earliest entry of the
\* preference list that a manual track carries.
C1_ManualByPreference ==
    (Selected /\ PreferredManualTracks(captionTracks) # {}) =>
        /\ IsManual(captionTracks[selectedTrack])
        /\ PrefRank(captionTracks[selectedTrack].languageCode)
               = EarliestRank(captionTracks, PreferredManualTracks(captionTracks))

\* C2: when no manual track but some track has a language of the preference
\* list, the selected track carries the earliest entry of the preference
\* list that any track carries.
C2_AnyKindByPreference ==
    (/\ Selected
     /\ PreferredManualTracks(captionTracks) = {}
     /\ PreferredTracks(captionTracks) # {}) =>
        PrefRank(captionTracks[selectedTrack].languageCode)
            = EarliestRank(captionTracks, PreferredTracks(captionTracks))

\* C3: when no track has a language of the preference list, the first track
\* of the list is selected whatever its kind; selection reports that there
\* are no captions exactly when the list is empty.
C3_FirstTrackFallback ==
    /\ (Selected /\ PreferredTracks(captionTracks) = {}) => selectedTrack = 1
    /\ selectPc \in { "selected", "failed" } =>
           (selectError \in { NoCaptionTracksRoute, NoCaptionTracksPreferred }
                <=> Len(captionTracks) = 0)

\* Rules 2 and 3 as the preference-list variant of fetchTranscript applies
\* them (rule 1 it breaks when the manual match is the first track).
PreferredVariantRules2And3 ==
    selector = "preferred" => C2_AnyKindByPreference /\ C3_FirstTrackFallback

----------------------------------------------------------------------------
(* Segment Parser properties *)

\* C4: format A is tried first, format B whenever format A gave no segment
\* with text; the parse fails only if neither format gave one.
C4_FormatFallback ==
    Parsed =>
        LET a == TextAndOffset(Srv3Loop(captionXml))
            b == TextAndOffset(StdLoop(captionXml))
        IN  IF a # << >> THEN parseError = "" /\ TextAndOffset(segments) = a
            ELSE IF b # << >> THEN parseError = "" /\ TextAndOffset(segments) = b
            ELSE parseError \in { NoSegmentsRoute, NoSegmentsBrowser }

\* C5: no parsed segment has empty or white-space-only text, and a payload
\* whose tags are all empty or white space once markup is stripped and
\* entities are decoded fails with NoSegmentsExtracted.
C5_NoBlankSegment ==
    Parsed =>
        /\ \A i \in 1..Len(segments) : ~IsBlank(segments[i].text)
        /\ (\A i \in 1..Len(captionXml) :
               IsBlank(DecodeHtmlEntities(StripTags(captionXml[i].inner))))
               => parseError \in { NoSegmentsRoute, NoSegmentsBrowser }

\* C6: a payload of n >= 1 format-A tags with plain texts parses to n
\* segments in document order, each with the tag's text, start and (in the
\* route, which keeps it) duration; the plain text is the texts joined by
\* single blanks and the timestamped text has one "[MM:SS] text" line each.
C6_FormatARoundTrip ==
    (/\ Parsed
     /\ Len(captionXml) >= 1
     /\ \A i \in 1..Len(captionXml) :
            captionXml[i].el = "p" /\ IsPlain(captionXml[i].inner)) =>
        /\ parseError = ""
        /\ Len(segments) = Len(captionXml)
        /\ \A i \in 1..Len(captionXml) :
               /\ segments[i].text = captionXml[i].inner
               /\ segments[i].offset = Decimal(captionXml[i].start)
               /\ parser = "route"
                      => segments[i].duration = Decimal(captionXml[i].dur)
        /\ Assembled =>
               /\ IsJoinOf(plainText,
                           [ i \in 1..Len(captionXml) |-> captionXml[i].inner ], " ")
               /\ Len(LinesOf(timestampedText)) = Len(captionXml)
               /\ \A i \in 1..Len(captionXml) :
                      IsTimestampLine(LinesOf(timestampedText)[i],
                                      Decimal(captionXml[i].start),
                                      captionXml[i].inner)

\* The example of C6: (1000, 500, Hello), (2000, 500, World) parsed and
\* assembled by the route to "Hello World" and
\* "[00:01] Hello" / "[00:02] World".
C6_Witness ==
    /\ parser = "route"
    /\ parsePc = "assembled"
    /\ captionXml =
           << [ el |-> "p", start |-> << "1", "0", "0", "0" >>,
                dur |-> << "5", "0", "0" >>, inner |-> Hello ],
              [ el |-> "p", start |-> << "2", "0", "0", "0" >>,
                dur |-> << "5", "0", "0" >>, inner |-> World ] >>
    /\ segments = << [ text |-> Hello, offset |-> 1000, duration |-> 500 ],
                     [ text |-> World, offset |-> 2000, duration |-> 500 ] >>
    /\ plainText = Hello \o << " " >> \o World
    /\ timestampedText =
           << "[", "0", "0", ":", "0", "1", "]", " " >> \o Hello \o << "\n" >>
               \o << "[", "0", "0", ":", "0", "2", "]", " " >> \o World

----------------------------------------------------------------------------
(* Transcript Assembler properties *)

\* C7: the timestamped text has exactly one line per segment, in segment
\* order, each "[MM:SS] text" with s = floor(offsetMillis / 1000),
\* SS = s mod 60 in two digits, MM = floor(s / 60) in two digits or more.
C7_TimestampedLines ==
    (Parsed /\ Assembled) =>
        /\ Len(LinesOf(timestampedText)) = Len(segments)
        /\ \A i \in 1..Len(segments) :
               IsTimestampLine(LinesOf(timestampedText)[i],
                               segments[i].offset, segments[i].text)

\* The format of C7 where no segment text holds a line break.
TimestampedLinesWithoutBreaks ==
    (\A i \in 1..Len(segments) :
         \A k \in 1..Len(segments[i].text) : segments[i].text[k] # "\n")
        => C7_TimestampedLines

\* C8: the word count of the response is the number of white-space
\* delimited non-empty tokens of the plain text.
C8_WordCount ==
    parsePc = "responded" => wordCount = TokenCount(plainText)

\* The count of C8 where the plain text has no white space at either end.
WordCountOfTrimmedText ==
    Trim(plainText) = plainText => C8_WordCount

----------------------------------------------------------------------------
(* Entity Resolver properties *)

\* C9: an input of one of the four URL shapes written with a valid
\* identifier resolves to that identifier.
C9_ShapeResolves ==
    (Resolved /\ inputShape \in UrlShapes) =>
        resolvePc = "resolved" /\ videoId = inputId

\* A padded v= URL with an earlier "v=" that no identifier follows,
\* resolved by the route to the identifier it was written with.
C9_Witness ==
    /\ resolvePc = "resolved"
    /\ resolver = "route"
    /\ inputShape = "v"
    /\ inputId = << "d", "Q", "w", "4", "w", "9", "W", "g", "X", "c", "Q" >>
    /\ videoUrl = << " " >> \o WatchPrefix
                      \o << "r", "e", "v", "=", "1", "&", "v", "=" >>
                      \o inputId \o << "&", "t", "=", "1", "s" >>
    /\ videoId = inputId

\* C10: an input of no URL shape whose trimmed value is eleven identifier
\* characters resolves to these characters unchanged, with or without
\* white space around them.
C10_BareResolves ==
    (Resolved /\ inputShape = "bare") =>
        resolvePc = "resolved" /\ videoId = inputId

\* The bare identifier as the route resolves it when the request carries it
\* without white space around it.
BareResolvesInRouteWhenTrimmed ==
    (resolver = "route" /\ Trim(videoUrl) = videoUrl) => C10_BareResolves

----------------------------------------------------------------------------
(* Vocabulary of the handler's properties *)

Finished(r) == pc[r] = "done"

CallNames(r) == [ i \in 1..Len(calls[r]) |-> calls[r][i].name ]

Issued(r, name) == \E i \in 1..Len(calls[r]) : calls[r][i].name = name

Ended(r, name, outcome) ==
    \E i \in 1..Len(calls[r]) :
        calls[r][i].name = name /\ calls[r][i].outcome = outcome

Parts(message) == { message[i] : i \in 1..Len(message) }

\* The body is JSON and neither its clientTranscript nor its videoUrl
\* yields an identifier.
Unresolvable(q) ==
    /\ q.json = "ok"
    /\ ~(q.clientTranscript.present /\ Truthy(q.clientTranscript.videoId))
    /\ q.videoUrl.t = "string" => ExtractVideoIdOf(q.videoUrl.v) = << >>

\* The four acquisition strategies in their priority order, by the call
\* that starts each: the direct fetch of the video page, the edge proxy
\* /api/yt-page, the transcript service behind /api/transcript, the CORS
\* relay.
Strategies == << "videoPage", "ytPage", "transcriptApi", "corsRelay" >>

Tried(r) ==
    SelectSeq(CallNames(r),
              LAMBDA n : \E k \in 1..Len(Strategies) : Strategies[k] = n)

\* The page of the origin shows no captions: no marker, or no track.
NoCaptionsFound(r) ==
    Ended(r, "videoPage", "noMarker") \/ Ended(r, "videoPage", "noTracks")

\* Caption acquisition failed: no tracks at the origin, or the page or the
\* payload could not be obtained.
AcquisitionFailed(r) ==
    \/ \E o \in { "throws", "notOk", "noMarker", "badJson", "noTracks",
                  "noUrl" } : Ended(r, "videoPage", o)
    \/ \E o \in { "throws", "notOk" } : Ended(r, "captions", o)

IsConfigured(key) == key \notin { "", "placeholder" }

BackendCalls(r) ==
    SelectSeq(CallNames(r), LAMBDA n : n \in { "Gemini", "Anthropic" })

\* A backend call ended with an error status or threw.
BackendFailed(r) ==
    \E i \in 1..Len(calls[r]) :
        /\ calls[r][i].name \in { "Gemini", "Anthropic" }
        /\ calls[r][i].outcome \in { "notOk", "throws", "throwsBare" }

\* The invocation is past the summary stage.
PastSummary(r) ==
    \/ pc[r] \in { "insert", "readCredits", "updateCredits", "respond" }
    \/ Finished(r) /\ response[r].status = 200

\* The summary stage failed: a backend failed, or a summary was asked for
\* and no key is configured.
SummaryFailed(r) ==
    \/ BackendFailed(r)
    \/ /\ PastSummary(r)
       /\ request[r].withSummary
       /\ ~IsConfigured(env.GEMINI_API_KEY)
       /\ ~IsConfigured(env.ANTHROPIC_API_KEY)

\* Texts that come from outside the handler: messages of errors the
\* runtime throws, status and body of an upstream error response.
RawTexts ==
    { MatchOfUndefined, JsonSyntaxError, FetchFailed, BackendStatus,
      BackendBody }

----------------------------------------------------------------------------
(* Handler properties *)

\* C11: a request from which no video identifier can be resolved is
\* answered 400 with the client-input error, never 500, and issues no
\* call at all: no caption fetch, no summary call, no store write.
C11_UnresolvableIsInvalidInput ==
    \A r \in Requests :
        (pc[r] \notin { "idle", "request" } /\ Unresolvable(request[r])) =>
            /\ Finished(r)
            /\ response[r].status = 400
            /\ response[r].error \in { Msg(UrlRequired), Msg(InvalidUrl) }
            /\ calls[r] = << >>
            /\ transcriptions = << >>

\* C11 for the requests whose videoUrl is a string.
UnresolvableUrlIsInvalidInput ==
    \A r \in Requests :
        request[r].videoUrl.t = "string" =>
            ((pc[r] \notin { "idle", "request" }
                  /\ Unresolvable(request[r])) =>
                /\ Finished(r)
                /\ response[r].status = 400
                /\ calls[r] = << >>)

\* C12: the strategies are tried in their priority order, each at most
\* once, and the attempt is answered as failed only after all of them were
\* tried.
C12_StrategiesInOrderUntilExhausted ==
    \A r \in Requests :
        /\ Tried(r) = SubSeq(Strategies, 1, Len(Tried(r)))
        /\ (Finished(r) /\ response[r].status = 422) =>
               Tried(r) = Strategies

\* C13: every request gets a response: an invocation that has not
\* answered can always take a step.
C13_AlwaysResponds ==
    \A r \in Requests : pc[r] \in { "idle", "done" } \/ ENABLED Step(r)

\* C14: when the page of the origin shows no captions, the request ends
\* with NoCaptionsAvailable (422 with the retry marker), no record is
\* inserted and the credits of the account are as they were read.
C14_NoCaptionsNoRecord ==
    \A r \in Requests :
        NoCaptionsFound(r) =>
            /\ Finished(r)
            /\ response[r].status = 422
            /\ response[r].fallbackToClient
            /\ response[r].error \in { Msg(NoCaptionsMarker),
                                       Msg(NoCaptionTracksRoute) }
            /\ ~Issued(r, "insert")
            /\ ~Issued(r, "updateCredits")
            /\ transcriptions = << >>
            /\ local[r].userId = "acct" => profile = local[r].profile

\* An authenticated request for a video whose page has an empty track
\* list, answered.
C14_Witness ==
    /\ Finished("r1")
    /\ Ended("r1", "videoPage", "noTracks")
    /\ local["r1"].userId = "acct"
    /\ profile.exists /\ profile.plan = "free"
    /\ profile.credits_remaining = 1

\* C15: every record persisted as 'completed' holds a transcript text that
\* is neither empty nor white space only.
C15_CompletedHasText ==
    \A i \in 1..Len(transcriptions) :
        transcriptions[i].status = "completed" =>
            ~IsBlank(transcriptions[i].transcript_text)

\* C16: an account whose row reads plan 'free' and credits_remaining <= 0
\* at the credit check is answered 402 there: the only calls are getUser
\* and the select of the row, no record is inserted and the row is as read.
C16_QuotaRejectedFirst ==
    \A r \in Requests :
        (/\ Issued(r, "selectProfile")
         /\ local[r].profile.exists
         /\ local[r].profile.plan = "free"
         /\ local[r].profile.credits_remaining <= 0) =>
            /\ Finished(r)
            /\ response[r].status = 402
            /\ response[r].error = Msg(QuotaReached)
            /\ CallNames(r) = << "getUser", "selectProfile" >>
            /\ transcriptions = << >>
            /\ profile = local[r].profile

\* A free account without credits, rejected.
C16_Witness ==
    /\ Finished("r1")
    /\ response["r1"].status = 402
    /\ local["r1"].profile =
           [ exists |-> TRUE, plan |-> "free", credits_remaining |-> 0 ]
    /\ request["r1"].videoUrl = Str(WatchUrl)

\* C17: a failure of the summary stage never aborts the request: the
\* invocation goes on, answers 200 with the full transcript and the
\* failure as summaryError, and an authenticated request still inserts its
\* record as 'completed'.
C17_SummaryFailureNotFatal ==
    \A r \in Requests :
        SummaryFailed(r) =>
            /\ pc[r] \in { "insert", "readCredits", "updateCredits",
                           "respond", "done" }
            /\ local[r].summaryError # NoMsg
            /\ Finished(r) =>
                   /\ response[r].status = 200
                   /\ response[r].error = NoMsg
                   /\ response[r].text = local[r].plainText
                   /\ response[r].text # << >>
                   /\ response[r].summaryError = local[r].summaryError
                   /\ response[r].summary = Null
            /\ (Finished(r) /\ local[r].userId = "acct") =>
                   /\ Issued(r, "insert")
                   /\ Ended(r, "insert", "row") =>
                          \E i \in 1..Len(transcriptions) :
                              /\ transcriptions[i].status = "completed"
                              /\ transcriptions[i].transcript_text
                                     = local[r].plainText
                              /\ response[r].id = i

\* The Gemini backend answered with an error status; the request of the
\* account was answered and its record inserted.
C17_Witness ==
    /\ Finished("r1")
    /\ Ended("r1", "Gemini", "notOk")
    /\ Ended("r1", "insert", "row")
    /\ response["r1"].summaryError = BackendError("Gemini")
    /\ Len(transcriptions) = 1

\* C18: at most one backend is called; Gemini whenever its key is
\* configured, whatever the Anthropic key and however the call ends;
\* Anthropic only when the Gemini key is absent or 'placeholder'; no
\* backend, and the summary reported unavailable, when neither is
\* configured.
C18_BackendPriority ==
    \A r \in Requests :
        /\ Len(BackendCalls(r)) <= 1
        /\ Issued(r, "Gemini") => IsConfigured(env.GEMINI_API_KEY)
        /\ Issued(r, "Anthropic") =>
               /\ ~IsConfigured(env.GEMINI_API_KEY)
               /\ IsConfigured(env.ANTHROPIC_API_KEY)
        /\ (PastSummary(r) /\ request[r].withSummary) =>
               IF IsConfigured(env.GEMINI_API_KEY)
               THEN BackendCalls(r) = << "Gemini" >>
               ELSE IF IsConfigured(env.ANTHROPIC_API_KEY)
               THEN BackendCalls(r) = << "Anthropic" >>
               ELSE /\ BackendCalls(r) = << >>
                    /\ local[r].summary = Null
                    /\ local[r].summaryError = Msg(NoAiKey)

\* Both keys configured, the Gemini call failed, and the request was
\* answered without a call of Anthropic.
C18_Witness ==
    /\ Finished("r1")
    /\ response["r1"].status = 200
    /\ env = BothKeys
    /\ Ended("r1", "Gemini", "throws")
    /\ ~Issued("r1", "Anthropic")

\* C19: no text of a thrown transport or upstream error is part of a
\* response: neither of error nor of summaryError.
C19_NoRawErrorText ==
    \A r \in Requests :
        /\ Parts(response[r].error) \cap RawTexts = { }
        /\ Parts(response[r].summaryError) \cap RawTexts = { }

\* C20: a failure response carries the client-retry marker (422 with
\* fallbackToClient) exactly when caption acquisition failed.
C20_RetryMarkerIffNoCaptions ==
    \A r \in Requests :
        (Finished(r) /\ response[r].status # 200) =>
            /\ response[r].fallbackToClient <=> response[r].status = 422
            /\ response[r].fallbackToClient <=> AcquisitionFailed(r)

\* The retry marker on the failures other than NoSegmentsExtracted.
RetryMarkerUnlessNoSegments ==
    \A r \in Requests :
        (Finished(r) /\ response[r].status # 200
             /\ ~Ended(r, "captions", "noSegments")) =>
            /\ response[r].fallbackToClient <=> response[r].status = 422
            /\ response[r].fallbackToClient <=> AcquisitionFailed(r)

\* C21: a request that carries a transcript with non-empty text issues no
\* metadata lookup, no video-page fetch and no caption fetch, and the text
\* of its response and of its record is the text of the body, unchanged.
C21_ClientTranscriptBypass ==
    \A r \in Requests :
        LET ct == request[r].clientTranscript
        IN  (request[r].json = "ok" /\ ct.present /\ Truthy(ct.text)) =>
                /\ ~Issued(r, "oembed")
                /\ ~Issued(r, "videoPage")
                /\ ~Issued(r, "captions")
                /\ (Finished(r) /\ response[r].status = 200) =>
                       response[r].text = ct.text.v
                /\ local[r].transcriptionId # 0 =>
                       transcriptions[local[r].transcriptionId]
                           .transcript_text = ct.text.v

\* The request of an account with the transcript Hello World, answered and
\* recorded.
C21_Witness ==
    /\ Finished("r1")
    /\ response["r1"].status = 200
    /\ request["r1"].clientTranscript.text = Str(HelloWorld)
    /\ response["r1"].text = HelloWorld
    /\ Len(transcriptions) = 1
    /\ transcriptions[1].transcript_text = HelloWorld
    /\ response["r1"].id = 1

\* C22: no segment text of either wire format holds a line break or white
\* space at either end: markup is stripped, entities and numeric references
\* are decoded, line breaks become spaces, and the result is trimmed.
C22_NormalizedSegmentText ==
    \A i \in 1..Len(segments) :
        /\ \A k \in 1..Len(segments[i].text) : segments[i].text[k] # "\n"
        /\ Trim(segments[i].text) = segments[i].text

\* C23: a success response to a request with withSummary = true carries
\* either a non-empty summary and no summaryError, or no summary and a
\* summaryError.
C23_SummaryOrReason ==
    \A r \in Requests :
        (Finished(r) /\ response[r].status = 200
             /\ request[r].withSummary) =>
            \/ Truthy(response[r].summary)
                   /\ response[r].summaryError = NoMsg
            \/ ~Truthy(response[r].summary)
                   /\ response[r].summaryError # NoMsg

\* C23 where no backend answered without a text.
SummaryOrReasonUnlessNoText ==
    \A r \in Requests :
        (\A b \in { "Gemini", "Anthropic" } : ~Ended(r, b, "noText")) =>
            ((Finished(r) /\ response[r].status = 200
                  /\ request[r].withSummary) =>
                \/ Truthy(response[r].summary)
                       /\ response[r].summaryError = NoMsg
                \/ ~Truthy(response[r].summary)
                       /\ response[r].summaryError # NoMsg)

\* An identifier of 11 characters of [A-Za-z0-9_-].
IsVideoIdentifier(id) ==
    Len(id) = 11 /\ \A k \in 1..Len(id) : id[k] \in IdChars

\* C25: every videoId of a success response and every video_id of a record
\* is 11 characters of [A-Za-z0-9_-].
C25_VideoIdShape ==
    /\ \A r \in Requests :
           (Finished(r) /\ response[r].status = 200) =>
               IsVideoIdentifier(response[r].videoId)
    /\ \A i \in 1..Len(transcriptions) :
           IsVideoIdentifier(transcriptions[i].video_id)

\* C25 for the requests whose identifier is resolved from videoUrl.
VideoIdShapeFromUrl ==
    \A r \in Requests :
        ~(request[r].clientTranscript.present
              /\ Truthy(request[r].clientTranscript.videoId)) =>
            /\ (Finished(r) /\ response[r].status = 200) =>
                   IsVideoIdentifier(response[r].videoId)
            /\ local[r].transcriptionId # 0 =>
                   IsVideoIdentifier(
                       transcriptions[local[r].transcriptionId].video_id)

----------------------------------------------------------------------------
(* Credit properties *)

\* Both invocations answered 200 and each inserted its record.
BothRecorded ==
    \A r \in Requests :
        /\ Finished(r)
        /\ response[r].status = 200
        /\ Ended(r, "insert", "row")

\* C24: the decrement is a read followed by a write: the update writes
\* the value the invocation read before, minus one, whatever the row holds
\* at the update.
C24_DecrementIsReadThenWrite ==
    [][\A r \in Requests :
           (pc[r] = "updateCredits" /\ pc'[r] = "respond"
                /\ profile.exists) =>
               profile'.credits_remaining =
                   local[r].currentProfile.credits_remaining - 1]_vars

\* One decrement lost: two requests of an account with 2 credits both
\* completed, both recorded and both updated the row, no event was
\* delivered, and credits_remaining is 1.
C24_Witness ==
    /\ BothRecorded
    /\ \A r \in Requests : Ended(r, "updateCredits", "row")
    /\ Len(transcriptions) = 2
    /\ events = << >>
    /\ opening = [ exists |-> TRUE, plan |-> "free", credits_remaining |-> 2 ]
    /\ profile.credits_remaining = 1

\* C26: without a reset of its credits, a free-plan account that had c
\* credits has at most c records, under every interleaving of its
\* requests.
C26_RecordsWithinCredits ==
    (events = << >> /\ opening.exists /\ opening.plan = "free") =>
        Len(transcriptions) <= opening.credits_remaining

\* C27: the handler never writes credits_remaining below zero, and the row
\* never holds a value below zero, under every interleaving of the
\* requests and the webhook.
C27_CreditsNeverNegative ==
    /\ profile.credits_remaining >= 0
    /\ \A r \in Requests :
           pc[r] = "updateCredits" =>
               local[r].currentProfile.credits_remaining - 1 >= 0

\* Both requests of an account with one credit read it and wrote 0 while
\* the webhook handled an event.
C27_Witness ==
    /\ \A r \in Requests :
           /\ Ended(r, "updateCredits", "row")
           /\ local[r].currentProfile.credits_remaining = 1
    /\ events # << >>
    /\ profile.credits_remaining = 0

\* C28: a completed transcription of an account whose plan is not 'free'
\* leaves credits_remaining as it was, and one of a free-plan account with
\* positive credits lowers it by exactly one.
C28_DecrementFreeOnly ==
    \A r \in Requests :
        (Finished(r) /\ response[r].status = 200
             /\ Ended(r, "insert", "row") /\ opening.exists) =>
            /\ opening.plan # "free" => profile = opening
            /\ (opening.plan = "free" /\ opening.credits_remaining > 0) =>
                   profile.credits_remaining =
                       opening.credits_remaining - 1

\* C28 for the free plan alone.
FreePlanDecrementsByOne ==
    \A r \in Requests :
        (Finished(r) /\ response[r].status = 200
             /\ Ended(r, "insert", "row") /\ opening.exists
             /\ opening.plan = "free" /\ opening.credits_remaining > 0) =>
            /\ profile.plan = "free"
            /\ profile.credits_remaining = opening.credits_remaining - 1

\* C29: credits_remaining is decremented only after the insert returned a
\* record id; when the insert fails the row is unchanged; a request without
\* a valid token inserts nothing and changes no row.
C29_CreditOnlyForRecord ==
    \A r \in Requests :
        /\ Issued(r, "updateCredits") =>
               Ended(r, "insert", "row") /\ local[r].transcriptionId # 0
        /\ Ended(r, "insert", "none") => profile = opening
        /\ (pc[r] # "idle"
                /\ request[r].authorization \in { "none", "Bearer stale" }) =>
               /\ ~Issued(r, "insert")
               /\ ~Issued(r, "updateCredits")
               /\ transcriptions = << >>
               /\ profile = opening

\* C29 for the requests without a valid token.
UnauthenticatedWritesNothing ==
    \A r \in Requests :
        (pc[r] # "idle"
             /\ request[r].authorization \in { "none", "Bearer stale" }) =>
            /\ ~Issued(r, "insert")
            /\ ~Issued(r, "selectCredits")
            /\ ~Issued(r, "updateCredits")
            /\ transcriptions = << >>
            /\ profile = opening

----------------------------------------------------------------------------
(* Edge proxy properties *)

\* youtube.com, youtube-nocookie.com, or a subdomain of one of them.
IsYoutubeHost(hostname) ==
    \/ hostname = YoutubeCom
    \/ EndsWith(hostname, << "." >> \o YoutubeCom)
    \/ hostname = NoCookieCom
    \/ EndsWith(hostname, << "." >> \o NoCookieCom)

\* The request names a URL, and the host of that URL is not a YouTube host.
OtherHostRequested ==
    /\ proxyPc # "idle"
    /\ TargetUrl(proxyRequest) # << >>
    /\ IsUrl(TargetUrl(proxyRequest))
    /\ ~IsYoutubeHost(Hostname(TargetUrl(proxyRequest)))

\* C30: the proxy fetches upstream only URLs whose host is youtube.com,
\* youtube-nocookie.com or a subdomain of one of them; a request for any
\* other host is answered 403 and nothing is fetched.
C30_ProxyFetchesYoutubeOnly ==
    /\ \A i \in 1..Len(proxyFetched) :
           IsYoutubeHost(Hostname(proxyFetched[i]))
    /\ (OtherHostRequested /\ proxyPc # "request") =>
           /\ proxyPc = "done"
           /\ proxyResponse.status = 403
           /\ proxyFetched = << >>

\* C30 for the hosts that do not end with one of the two names.
ProxyRejectsOtherSuffixes ==
    (OtherHostRequested /\ proxyPc # "request"
         /\ HostRejected(Hostname(TargetUrl(proxyRequest)))) =>
        /\ proxyPc = "done"
        /\ proxyResponse.status = 403
        /\ proxyFetched = << >>

====
